---------------------------- MODULE Spec2Model ----------------------------
(***************************************************************************)
(* Verification model of the vue-tsgo backend bridge.                      *)
(*                                                                         *)
(* Part 1: TsgoBackend (src/src/language-server/tsgo-backend.ts), the      *)
(* class that spawns the tsgo process, performs the LSP handshake and      *)
(* correlates JSON-RPC requests with responses.                            *)
(*                                                                         *)
(* Execution model: Node.js runs one callback at a time.  Every action     *)
(* below is one run-to-completion step: a public method up to its first    *)
(* await, an event handler (data, exit, error, timer), or the continuation *)
(* of an await.  Continuations are microtasks: they are queued in mq and   *)
(* drained before the next event is delivered.                             *)
(***************************************************************************)
EXTENDS Integers, Sequences, FiniteSets, TLC

(* ------------------------------ bounds -------------------------------- *)
\* number of invocations of the public methods start(), stop(),
\* provideDefinition() and provideHover(), all together
MaxCalls == 3

\* number of LanguageClient instances VueTsgoClient creates
MaxClients == 3

\* number of pieces of a URI path
MaxPath == 3

\* invocations of start(), of stop() and of provideDefinition / provideHover
Starts == 1..MaxCalls
Stops == 1..MaxCalls
Features == 1..MaxCalls
\* the process spawned by start() invocation s is process s
Procs == Starts
\* the ids that can be allocated: every invocation calls sendRequest at most
\* once (initialize, shutdown, or the feature request)
Ids == 1..MaxCalls

VARIABLES
    tsgoProcess,      \* the handle field: 0 is undefined, p > 0 is process p
    requestId,        \* the id counter field
    pendingRequests,  \* key set of the pendingRequests map
    procState,        \* per process: none | alive | spawnerr | failed | killed | exited | dead
    calls,            \* per issued id: the sendRequest invocation registered under it
    wire,             \* log of the messages written to the backend processes
    answered,         \* ids the backend has already sent a response for
    startSt,          \* per start() invocation: its position and locals
    stopSt,           \* per stop() invocation: its position
    featSt,           \* per provideDefinition/provideHover invocation
    mq,               \* microtask queue: continuations ready to run
    uncaught          \* number of exceptions thrown out of an event callback

\* Part 2, the framing of the stdio channel (sendMessage and the stdout data
\* handler of setupProcessHandlers)
VARIABLES
    written,          \* the bodies framed and written so far, in order
    pipe,             \* bytes written and not yet delivered in a data event
    buffer,           \* the string buffer of the data handler
    dispatched,       \* the messages handed to handleMessage, in order
    logged            \* number of frames logged as undecodable and dropped

backendVars ==
    <<tsgoProcess, requestId, pendingRequests, procState, calls, wire,
      answered, startSt, stopSt, featSt, mq, uncaught>>

framerVars == <<written, pipe, buffer, dispatched, logged>>

\* Part 3, the mapping between a Vue file and the synthetic TypeScript
\* document of its script region (ScriptExtractor, VueParser,
\* VirtualDocumentManager, VueLanguageProviders)
VARIABLES
    document,         \* text of the Vue document the editor shows
    uriToMapping,     \* the uriToMapping map of VirtualDocumentManager
    uriToText,        \* the uriToText map of VirtualDocumentManager
    opened,           \* synthetic documents announced by didOpen, not yet closed
    call,             \* the provider invocation: its position and locals
    returned,         \* the locations the definition provider returned
    mapped,           \* the last mapVirtualToVueRange application
    mappedUri         \* the last mapVirtualToVueFile application

mapperVars ==
    <<document, uriToMapping, uriToText, opened, call, returned, mapped,
      mappedUri>>

\* Part 4, the extension side: the LanguageClient that VueTsgoClient holds
\* and the hover / definition invocations of VueLanguageProviders that
\* overlap each other
VARIABLES
    client,           \* VueTsgoClient.client: the LanguageClient held, 0 = undefined
    clientState,      \* per LanguageClient created so far, its state
    op,               \* the start() / stop() / restart() call of VueTsgoClient
    provides          \* per provider invocation: position in the code, locals

clientVars == <<client, clientState, op, provides>>

vars == <<backendVars, framerVars, mapperVars, clientVars>>

(* ----------------------------- helpers -------------------------------- *)
\* the LanguageClient instances VueTsgoClient creates, in order of creation
Clients == 1..MaxClients

\* the provider invocations that can be in progress at the same time
Provides == {1, 2}

\* a provider invocation that has not been called
IdleProvide ==
    [pc |-> "idle", kind |-> "none", tsUri |-> <<>>, didOpen |-> 0,
     didClose |-> 0, outcome |-> "unasked"]

\* ascending enumeration of a finite set of integers (Map iteration order of
\* pendingRequests is insertion order, and ids are inserted in ascending order)
RECURSIVE SortedSeq(_)
SortedSeq(S) ==
    IF S = {} THEN <<>>
    ELSE LET m == CHOOSE x \in S : \A y \in S : x <= y
         IN <<m>> \o SortedSeq(S \ {m})

Owner(kind, n) == [kind |-> kind, n |-> n]

\* guard shared by sendRequest, sendNotification and sendMessage:
\* !this.tsgoProcess || !this.tsgoProcess.stdin.  A ChildProcess spawned with
\* stdio "pipe" keeps its stdin object for life, so the guard is the handle.
NotRunning == tsgoProcess = 0

\* an outbound message written to the stdin of process p (id 0: notification)
OutMsg(p, method, id) == [proc |-> p, method |-> method, id |-> id]

\* sendMessage: stdin.write of the framed message
sendMessage(method, id) == wire' = Append(wire, OutMsg(tsgoProcess, method, id))

\* a wrong sendNotification: the message carries the next id
sendNotificationWithId(method) == sendMessage(method, requestId + 1)

\* sendNotification past its guard: a message without an id field
sendNotification(method) == sendMessage(method, 0)

\* a wrong id allocation: the id derived from the number of pending entries
NextIdBySize(r, pend) == Cardinality(pend) + 1

\* const id = ++this.requestId
NextId(r, pend) == r + 1

\* sendRequest past its guard: ++requestId, pendingRequests.set, sendMessage,
\* setTimeout(30000)
sendRequest(method, owner) ==
    LET id == NextId(requestId, pendingRequests) IN
    /\ requestId' = id
    /\ pendingRequests' = pendingRequests \cup {id}
    /\ calls' = (id :> [method |-> method, owner |-> owner, proc |-> tsgoProcess,
                        settles |-> 0, by |-> "none", timer |-> "armed"])
                @@ calls
    /\ sendMessage(method, id)

\* resolve/reject of the promise of call id: the first one decides the outcome
SettleRec(c, how) ==
    [c EXCEPT !.settles = @ + 1, !.by = IF c.settles = 0 THEN how ELSE @]

\* the branch handleMessage takes for an inbound message: reject when it has
\* an error field, resolve(message.result) otherwise.  A message with a
\* method field (a request or notification of the backend) has neither an
\* error nor a result and takes the resolve branch.
SettleBy(c, body) ==
    IF body = "request" THEN SettleRec(c, "result") ELSE SettleRec(c, body)

\* the for-loop of stop(): reject every pending call, then clear the map
RejectAll(cs, pend) ==
    [i \in DOMAIN cs |-> IF i \in pend THEN SettleRec(cs[i], "stopped") ELSE cs[i]]

RECURSIVE OwnersOf(_, _)
OwnersOf(cs, ids) ==
    IF ids = <<>> THEN <<>>
    ELSE <<cs[Head(ids)].owner>> \o OwnersOf(cs, Tail(ids))

\* awaiting continuations woken by settling the calls in pend, in id order;
\* a promise that is already settled wakes nobody a second time
Woken(cs, pend) ==
    OwnersOf(cs, SortedSeq({i \in pend : cs[i].settles = 0}))

\* number of invocations of public methods made so far
Invoked ==
    Cardinality({s \in Starts : startSt[s].pc # "idle"})
    + Cardinality({t \in Stops : stopSt[t].pc # "idle"})
    + Cardinality({f \in Features : featSt[f].pc # "idle"})

(* ------------------------------- Init --------------------------------- *)
Init ==
    /\ tsgoProcess = 0
    /\ requestId = 0
    /\ pendingRequests = {}
    /\ procState = [p \in Procs |-> "none"]
    /\ calls = <<>>
    /\ wire = <<>>
    /\ answered = {}
    /\ startSt = [s \in Starts |->
                    [pc |-> "idle", resolved |-> FALSE,
                     outcome |-> "none", result |-> "none", await |-> 0]]
    /\ stopSt = [t \in Stops |-> [pc |-> "idle", await |-> 0]]
    /\ featSt = [f \in Features |->
                    [pc |-> "idle", kind |-> "none", await |-> 0,
                     result |-> "none", early |-> FALSE]]
    /\ mq = <<>>
    /\ uncaught = 0
    /\ written = <<>>
    /\ pipe = <<>>
    /\ buffer = <<>>
    /\ dispatched = <<>>
    /\ logged = 0
    /\ document = <<>>
    /\ uriToMapping = {}
    /\ uriToText = {}
    /\ opened = {}
    /\ call = [pc |-> "idle", kind |-> "none", requested |-> 0,
               position |-> [line |-> 0, character |-> 0],
               scriptInfo |-> [start |-> -1, end |-> -1, code |-> <<>>],
               offset |-> 0,
               tsPosition |-> [line |-> -1, character |-> -1]]
    /\ returned = {}
    /\ mapped = {}
    /\ mappedUri =
          LET uri == [scheme |-> "file", path |-> <<"App", ".vue">>]
          IN [of |-> uri, virtual |-> TRUE, needs |-> TRUE, to |-> uri,
              twice |-> uri]
    /\ client = 0
    /\ clientState = [k \in Clients |-> "none"]
    /\ op = [name |-> "none", pc |-> "idle", before |-> 0,
             states |-> [k \in Clients |-> "none"]]
    /\ provides = [c \in Provides |-> IdleProvide]


(* --------------------------- start() ---------------------------------- *)
\* start() up to `await ServerConfigManager.getTsgoPath()`.  The caller
\* (onInitialized of the language server) issues one start() at a time:
\* invocation s + 1 begins after invocation s has returned or got stuck.
\* stop() and the feature calls may overlap a start() at any point.
start(s) ==
    /\ mq = <<>>
    /\ startSt[s].pc = "idle"
    /\ Invoked < MaxCalls
    /\ \A r \in Starts : r < s => startSt[r].pc \in {"done", "hung"}
    /\ startSt' = [startSt EXCEPT ![s].pc = "path"]
    /\ UNCHANGED <<tsgoProcess, requestId, pendingRequests, procState, calls,
                   wire, answered, stopSt, featSt, mq, uncaught>>
    /\ UNCHANGED <<framerVars, mapperVars, clientVars>>

\* start() from spawn() to the await of the startup promise: the handle is
\* assigned, setupProcessHandlers registers the exit handler, the executor
\* registers onError/onExit and arms the 1000 ms timer.  The spawn either
\* yields a running process or one whose 'error' event is about to be emitted.
startSpawn(s, ok) ==
    /\ mq = <<>>
    /\ startSt[s].pc = "path"
    /\ tsgoProcess' = s
    /\ procState' = [procState EXCEPT ![s] = IF ok THEN "alive" ELSE "spawnerr"]
    /\ startSt' = [startSt EXCEPT ![s].pc = "wait", ![s].resolved = FALSE]
    /\ UNCHANGED <<requestId, pendingRequests, calls, wire, answered, stopSt,
                   featSt, mq, uncaught>>
    /\ UNCHANGED <<framerVars, mapperVars, clientVars>>

\* a wrong catch block: the error is thrown again and start() rejects
StartRethrown(st, why) ==
    [st EXCEPT !.pc = "done", !.outcome = why, !.result = "rejected"]

\* the catch block of start(): log, do not rethrow; the promise of start()
\* resolves
StartCaught(st, why) ==
    [st EXCEPT !.pc = "done", !.outcome = why, !.result = "resolved"]

\* onError / onExit of the startup promise: if (!resolved) { resolved = true;
\* reject(...) }, and the rejection lands in the catch block of start()
StartupFailed(st, why) ==
    IF st.pc = "wait" /\ ~st.resolved
    THEN StartCaught([st EXCEPT !.resolved = TRUE], why)
    ELSE st

\* 'error' event of process p (the executable could not be spawned)
procError(p) ==
    /\ mq = <<>>
    /\ procState[p] = "spawnerr"
    /\ procState' = [procState EXCEPT ![p] = "failed"]
    /\ startSt' = [startSt EXCEPT ![p] = StartupFailed(@, "error")]
    /\ UNCHANGED <<tsgoProcess, requestId, pendingRequests, calls, wire,
                   answered, stopSt, featSt, mq, uncaught>>
    /\ UNCHANGED <<framerVars, mapperVars, clientVars>>

\* a wrong exit handler: the handle field is left as it is
ExitHandleKept(h, p) == h

\* the exit handler of setupProcessHandlers: this.tsgoProcess = undefined,
\* whichever process p the event belongs to and whatever the field h holds
ExitHandle(h, p) == 0

\* 'exit' event of process p, on its own account (the process ends as
\* "exited") or after kill() (as "dead"): first the handler of
\* setupProcessHandlers, then onExit of the startup promise
procExit(p) ==
    /\ mq = <<>>
    /\ procState[p] \in {"alive", "killed"}
    /\ procState' = [procState EXCEPT
                        ![p] = IF @ = "alive" THEN "exited" ELSE "dead"]
    /\ tsgoProcess' = ExitHandle(tsgoProcess, p)
    /\ startSt' = [startSt EXCEPT ![p] = StartupFailed(@, "exit")]
    /\ UNCHANGED <<requestId, pendingRequests, calls, wire, answered, stopSt,
                   featSt, mq, uncaught>>
    /\ UNCHANGED <<framerVars, mapperVars, clientVars>>

\* the 1000 ms timer of the startup promise, which fires after the 'error'
\* event of a failed spawn (emitted on the next tick).  With resolved already
\* set the callback does nothing.  this.tsgoProcess!.off(...) reads the handle
\* field when the timer fires: with the field undefined it throws a TypeError
\* out of the timer callback, after resolved was set and before resolve() is
\* reached, so the startup promise never settles.
graceTimer(s) ==
    /\ mq = <<>>
    /\ startSt[s].pc = "wait"
    /\ ~startSt[s].resolved
    /\ procState[s] # "spawnerr"
    /\ IF tsgoProcess = 0
       THEN /\ startSt' = [startSt EXCEPT ![s].resolved = TRUE, ![s].pc = "hung"]
            /\ uncaught' = uncaught + 1
            /\ UNCHANGED mq
       ELSE /\ startSt' = [startSt EXCEPT ![s].resolved = TRUE,
                                         ![s].pc = "started",
                                         ![s].outcome = "started"]
            /\ mq' = Append(mq, Owner("start", s))
            /\ UNCHANGED uncaught
    /\ UNCHANGED <<tsgoProcess, requestId, pendingRequests, procState, calls,
                   wire, answered, stopSt, featSt>>
    /\ UNCHANGED <<framerVars, mapperVars, clientVars>>

\* initializeLsp, first half: sendRequest("initialize", ...)
initializeLsp(s) ==
    /\ startSt[s].pc = "started"
    /\ IF NotRunning
       THEN /\ startSt' = [startSt EXCEPT ![s].pc = "done", ![s].result = "resolved"]
            /\ UNCHANGED <<requestId, pendingRequests, calls, wire>>
       ELSE /\ sendRequest("initialize", Owner("start", s))
            /\ startSt' = [startSt EXCEPT ![s].pc = "init",
                                          ![s].await = NextId(requestId, pendingRequests)]

\* initializeLsp, second half, once the initialize call has settled:
\* sendNotification("initialized", {}) after a result; a rejection, or the
\* throw of sendNotification, lands in the catch block of start()
initialized(s) ==
    /\ startSt[s].pc = "init"
    /\ startSt' = [startSt EXCEPT ![s].pc = "done", ![s].result = "resolved"]
    /\ IF calls[startSt[s].await].by = "result" /\ ~NotRunning
       THEN sendNotification("initialized")
       ELSE UNCHANGED wire
    /\ UNCHANGED <<requestId, pendingRequests, calls>>

\* continuation of an await inside start()
startContinue(s) ==
    /\ mq # <<>>
    /\ Head(mq) = Owner("start", s)
    /\ mq' = Tail(mq)
    /\ \/ initializeLsp(s)
       \/ initialized(s)
    /\ UNCHANGED <<tsgoProcess, procState, answered, stopSt, featSt, uncaught>>
    /\ UNCHANGED <<framerVars, mapperVars, clientVars>>


(* ---------------------------- stop() ---------------------------------- *)
\* the tail of stop(): this.tsgoProcess.kill(); this.tsgoProcess = undefined;
\* then reject every pending call and clear the map.  The handle field is read
\* again here, after the awaits: with the field undefined the call of kill()
\* throws a TypeError out of stop() and nothing after it runs.
killAndClear(t, q) ==
    IF tsgoProcess = 0
    THEN /\ stopSt' = [stopSt EXCEPT ![t].pc = "threw"]
         /\ mq' = q
         /\ UNCHANGED <<tsgoProcess, procState, pendingRequests, calls>>
    ELSE /\ procState' = [procState EXCEPT
                            ![tsgoProcess] = IF @ = "alive" THEN "killed" ELSE @]
         /\ tsgoProcess' = 0
         /\ calls' = RejectAll(calls, pendingRequests)
         /\ pendingRequests' = {}
         /\ mq' = q \o Woken(calls, pendingRequests)
         /\ stopSt' = [stopSt EXCEPT ![t].pc = "done"]

\* stop() up to its first await: with a handle, sendRequest("shutdown", null);
\* without one, straight to the rejection of the pending calls
stop(t) ==
    /\ mq = <<>>
    /\ stopSt[t].pc = "idle"
    /\ Invoked < MaxCalls
    /\ \A r \in Stops : r < t => stopSt[r].pc # "idle"
    /\ IF NotRunning
       THEN /\ calls' = RejectAll(calls, pendingRequests)
            /\ pendingRequests' = {}
            /\ mq' = mq \o Woken(calls, pendingRequests)
            /\ stopSt' = [stopSt EXCEPT ![t].pc = "done"]
            /\ UNCHANGED <<requestId, wire>>
       ELSE /\ sendRequest("shutdown", Owner("stop", t))
            /\ stopSt' = [stopSt EXCEPT ![t].pc = "shutdown",
                                        ![t].await = NextId(requestId, pendingRequests)]
            /\ UNCHANGED mq
    /\ UNCHANGED <<tsgoProcess, procState, answered, startSt, featSt, uncaught>>
    /\ UNCHANGED <<framerVars, mapperVars, clientVars>>

\* a wrong stop(): the exit notification follows the shutdown call however
\* the call ended
ShutdownSettled(c) == c.by # "none"

\* `await this.sendRequest("shutdown", null)` returns (does not throw into
\* the catch block): the call was resolved by its response
ShutdownResolved(c) == c.by = "result"

\* continuation of an await inside stop(): after the shutdown call settled,
\* sendNotification("exit", null) if it resolved and the guard passes, else the
\* catch block; after the exit notification, the tail
stopContinue(t) ==
    /\ mq # <<>>
    /\ Head(mq) = Owner("stop", t)
    /\ \/ /\ stopSt[t].pc = "shutdown"
          /\ ShutdownResolved(calls[stopSt[t].await])
          /\ ~NotRunning
          /\ sendNotification("exit")
          /\ stopSt' = [stopSt EXCEPT ![t].pc = "exit"]
          /\ mq' = Append(Tail(mq), Owner("stop", t))
          /\ UNCHANGED <<tsgoProcess, procState, pendingRequests, calls>>
       \/ /\ stopSt[t].pc = "shutdown"
          /\ ~(ShutdownResolved(calls[stopSt[t].await]) /\ ~NotRunning)
          /\ killAndClear(t, Tail(mq))
          /\ UNCHANGED wire
       \/ /\ stopSt[t].pc = "exit"
          /\ killAndClear(t, Tail(mq))
          /\ UNCHANGED wire
    /\ UNCHANGED <<requestId, answered, startSt, featSt, uncaught>>
    /\ UNCHANGED <<framerVars, mapperVars, clientVars>>

(* ----------------- provideDefinition / provideHover ------------------- *)
\* the request method of a feature call
FeatureMethod(kind) ==
    IF kind = "definition" THEN "textDocument/definition" ELSE "textDocument/hover"

\* the handshake of some start() has been completed: the initialized
\* notification is on the wire
HandshakeDone ==
    \E i \in 1..Len(wire) : wire[i].method = "initialized"

\* a wrong catch block: the error is thrown on to the caller
FeatureRethrown(why) == "threw"

\* the catch block of provideDefinition / provideHover: log, return null
FeatureCaught(why) == "null"

\* provideDefinition / provideHover up to the await of openDocument.  Without
\* a document provideHover returns null at once and provideDefinition lands in
\* its catch block on context.document.uri; without a process
\* sendNotification throws into the catch block; both return null.
provide(f, kind, hasDocument) ==
    /\ mq = <<>>
    /\ featSt[f].pc = "idle"
    /\ Invoked < MaxCalls
    /\ \A r \in Features : r < f => featSt[r].pc # "idle"
    /\ IF ~hasDocument \/ NotRunning
       THEN /\ featSt' = [featSt EXCEPT ![f].pc = "done", ![f].kind = kind,
                                        ![f].result =
                                           IF kind = "hover" /\ ~hasDocument
                                           THEN "null"
                                           ELSE FeatureCaught("guard"),
                                        ![f].early = ~HandshakeDone]
            /\ UNCHANGED <<wire, mq>>
       ELSE /\ sendNotification("textDocument/didOpen")
            /\ featSt' = [featSt EXCEPT ![f].pc = "opened", ![f].kind = kind,
                                        ![f].early = ~HandshakeDone]
            /\ mq' = Append(mq, Owner("feature", f))
    /\ UNCHANGED <<tsgoProcess, requestId, pendingRequests, procState, calls,
                   answered, startSt, stopSt, uncaught>>
    /\ UNCHANGED <<framerVars, mapperVars, clientVars>>

\* continuation of an await inside provideDefinition / provideHover: after
\* openDocument the sendRequest of the feature method (rejected at once
\* without a process); after the request settled, its result or, from the
\* catch block, null
provideContinue(f) ==
    /\ mq # <<>>
    /\ Head(mq) = Owner("feature", f)
    /\ mq' = Tail(mq)
    /\ \/ /\ featSt[f].pc = "opened"
          /\ NotRunning
          /\ featSt' = [featSt EXCEPT ![f].pc = "done",
                                       ![f].result = FeatureCaught("guard")]
          /\ UNCHANGED <<requestId, pendingRequests, calls, wire>>
       \/ /\ featSt[f].pc = "opened"
          /\ ~NotRunning
          /\ sendRequest(FeatureMethod(featSt[f].kind), Owner("feature", f))
          /\ featSt' = [featSt EXCEPT ![f].pc = "wait", ![f].await = NextId(requestId, pendingRequests)]
       \/ /\ featSt[f].pc = "wait"
          /\ featSt' = [featSt EXCEPT
                          ![f].pc = "done",
                          ![f].result =
                             IF calls[featSt[f].await].by = "result"
                             THEN "result"
                             ELSE FeatureCaught(calls[featSt[f].await].by)]
          /\ UNCHANGED <<requestId, pendingRequests, calls, wire>>
    /\ UNCHANGED <<tsgoProcess, procState, answered, startSt, stopSt, uncaught>>
    /\ UNCHANGED <<framerVars, mapperVars, clientVars>>

(* ------------------- responses and request timeouts ------------------- *)
\* the pending set after handleMessage has taken the entry of id
TakeEntry(pend, id) == pend \ {id}

\* a wrong lookup: responses are matched to calls in the order of the calls
EntryOfOldest(pend, id) == Head(SortedSeq(pend))

\* this.pendingRequests.get(message.id): the entry stored under the id
EntryOf(pend, id) == id

\* a wrong guard: the message is taken for a response to a pending call
\* whatever its id
HasEntryAlways(pend, id) == TRUE

\* the guard of handleMessage: message.id !== undefined &&
\* this.pendingRequests.has(message.id)
HasEntry(pend, id) == id \in pend

\* the ids a backend process gives to the requests it sends on its own: it
\* numbers them from 1, as the bridge numbers its calls
BackendIds == {1}

\* a message with this id from process p reaches handleMessage: the response
\* to call id (body result or error; the backend answers a call once), or a
\* request of the backend that carries a method field and happens to have
\* this id.  If the id is pending, delete the entry, then reject (error) or
\* resolve
handleMessage(p, id, body) ==
    /\ mq = <<>>
    /\ procState[p] = "alive"
    /\ id \in DOMAIN calls
    /\ calls[id].proc = p
    /\ IF body = "request" THEN id \in BackendIds ELSE id \notin answered
    /\ answered' = IF body = "request" THEN answered ELSE answered \cup {id}
    /\ IF HasEntry(pendingRequests, id)
       THEN LET k == EntryOf(pendingRequests, id)
            IN /\ pendingRequests' = TakeEntry(pendingRequests, id)
               /\ calls' = [calls EXCEPT ![k] = SettleBy(@, body)]
               /\ mq' = mq \o Woken(calls, {k})
       ELSE UNCHANGED <<pendingRequests, calls, mq>>
    /\ UNCHANGED <<tsgoProcess, requestId, procState, wire, startSt, stopSt,
                   featSt, uncaught>>
    /\ UNCHANGED <<framerVars, mapperVars, clientVars>>

\* a wrong timeout callback: reject without looking at the map
TimeoutGuardAlways(pend, id) == TRUE

\* a wrong timeout callback: it never rejects
TimeoutGuardNever(pend, id) == FALSE

\* the guard of the timeout callback: this.pendingRequests.has(id)
TimeoutGuard(pend, id) == id \in pend

\* a wrong timeout callback: the whole map is cleared
TimeoutClears(pend, rejected) == {}

\* this.pendingRequests.delete(id) in the timeout callbacks whose guard passed
TimeoutDeletes(pend, rejected) == pend \ rejected

\* the 30000 ms timer of the pending call id fires.  All request timers run
\* for the same time, so they fire in the order in which they were armed,
\* which is the order of the ids: the timers armed before this one and not
\* yet accounted for have fired by now.  Every callback runs its guard; the
\* callbacks of calls that are no longer pending find no entry and do
\* nothing, which is why they are taken in the same step.  A callback whose
\* guard passes deletes the entry and rejects.
requestTimeout(id) ==
    /\ mq = <<>>
    /\ id \in DOMAIN calls
    /\ calls[id].timer = "armed"
    /\ id \in pendingRequests
    /\ \A j \in pendingRequests : id <= j
    /\ LET fired == {j \in DOMAIN calls : j <= id /\ calls[j].timer = "armed"}
           rejected == {j \in fired : TimeoutGuard(pendingRequests, j)}
       IN /\ pendingRequests' = TimeoutDeletes(pendingRequests, rejected)
          /\ calls' = [j \in DOMAIN calls |->
                         IF j \in rejected
                         THEN SettleRec([calls[j] EXCEPT !.timer = "fired"], "timeout")
                         ELSE IF j \in fired
                         THEN [calls[j] EXCEPT !.timer = "fired"]
                         ELSE calls[j]]
          /\ mq' = mq \o Woken(calls, rejected)
    /\ UNCHANGED <<tsgoProcess, requestId, procState, wire, answered, startSt,
                   stopSt, featSt, uncaught>>
    /\ UNCHANGED <<framerVars, mapperVars, clientVars>>

(* --------------------------- specification ---------------------------- *)
Next ==
    \/ \E s \in Starts : start(s)
    \/ \E s \in Starts, ok \in BOOLEAN : startSpawn(s, ok)
    \/ \E p \in Procs : procError(p)
    \/ \E p \in Procs : procExit(p)
    \/ \E s \in Starts : graceTimer(s)
    \/ \E s \in Starts : startContinue(s)
    \/ \E t \in Stops : stop(t)
    \/ \E t \in Stops : stopContinue(t)
    \/ \E f \in Features, kind \in {"definition", "hover"}, d \in BOOLEAN :
          provide(f, kind, d)
    \/ \E f \in Features : provideContinue(f)
    \/ \E p \in Procs, id \in Ids, body \in {"result", "error", "request"} :
          handleMessage(p, id, body)
    \/ \E id \in Ids : requestTimeout(id)

Spec == Init /\ [][Next]_vars

\* The event loop of Node.js runs the continuations that are ready (the
\* microtask queue is drained after every callback) and runs the callback of
\* a timer once its 30000 ms have passed.
Microtask ==
    \/ \E s \in Starts : startContinue(s)
    \/ \E t \in Stops : stopContinue(t)
    \/ \E f \in Features : provideContinue(f)

TimerDue == \E id \in Ids : requestTimeout(id)

LiveSpec == Spec /\ WF_vars(Microtask) /\ WF_vars(TimerDue)


(* ============================== framing =============================== *)
(* Part 2: the byte framing of the stdio channel.  sendMessage frames a    *)
(* body as `Content-Length: N\r\n\r\n` + body with N = Buffer.byteLength;  *)
(* the data handler of setupProcessHandlers appends data.toString() of     *)
(* every chunk to a string buffer and cuts frames out of the string.       *)
(* A text is a sequence of characters, a character is a short string:      *)
(* "CR" and "LF" are \r and \n, "u00E9" is a non-ASCII character whose     *)
(* UTF-8 encoding is the two bytes "xC3" "xA9", "uFFFD" is the replacement *)
(* character that decoding produces for a byte outside a complete          *)
(* sequence; every other character is ASCII and is its own byte.           *)
(***************************************************************************)
\* number of frames written to the channel
MaxFrames == 2

CRLF == <<"CR", "LF">>
Delimiter == CRLF \o CRLF
Digits == <<"0", "1", "2", "3", "4", "5", "6", "7", "8", "9">>
DigitSet == {Digits[i] : i \in 1..10}
DigitValue(c) == (CHOOSE i \in 1..10 : Digits[i] = c) - 1

\* the least element of a non-empty set of integers
Least(S) == CHOOSE x \in S : \A y \in S : x <= y

\* String(n) of a non-negative integer, as the template literal prints it
RECURSIVE Decimal(_)
Decimal(n) ==
    IF n < 10 THEN <<Digits[n + 1]>>
    ELSE Decimal(n \div 10) \o <<Digits[(n % 10) + 1]>>

\* the UTF-8 encoding of a text (stdin.write of a string)
RECURSIVE Utf8(_)
Utf8(text) ==
    IF text = <<>> THEN <<>>
    ELSE (IF Head(text) = "u00E9" THEN <<"xC3", "xA9">> ELSE <<Head(text)>>)
         \o Utf8(Tail(text))

\* Buffer.byteLength(content)
ByteLength(text) == Len(Utf8(text))

\* data.toString(): UTF-8 decoding of one chunk on its own; a byte that is
\* not part of a complete sequence inside the chunk becomes U+FFFD
RECURSIVE toString(_)
toString(bytes) ==
    IF bytes = <<>> THEN <<>>
    ELSE IF Len(bytes) >= 2 /\ bytes[1] = "xC3" /\ bytes[2] = "xA9"
    THEN <<"u00E9">> \o toString(Tail(Tail(bytes)))
    ELSE IF Head(bytes) \in {"xC3", "xA9"}
    THEN <<"uFFFD">> \o toString(Tail(bytes))
    ELSE <<Head(bytes)>> \o toString(Tail(bytes))

\* the JSON-RPC messages of the model: id 0 stands for a message without an
\* id field, text for the rest of the message (method, params, result)
Messages == [id : 0..1, text : {<<"a">>, <<"u00E9">>}]

\* JSON.stringify(message)
JSONstringify(m) ==
    <<"{">> \o (IF m.id = 0 THEN <<>> ELSE Decimal(m.id)) \o m.text \o <<"}">>

\* the number of digits at the head of a text
RECURSIVE LeadingDigits(_)
LeadingDigits(text) ==
    IF text # <<>> /\ Head(text) \in DigitSet
    THEN 1 + LeadingDigits(Tail(text))
    ELSE 0

\* the value of a text of digits
RECURSIVE NumberOf(_)
NumberOf(digits) ==
    IF digits = <<>> THEN 0
    ELSE 10 * NumberOf(SubSeq(digits, 1, Len(digits) - 1))
         + DigitValue(digits[Len(digits)])

\* JSON.parse(content) returns (does not throw): braces around an optional
\* id and a non-empty text of string characters
JSONvalid(content) ==
    /\ Len(content) >= 3
    /\ content[1] = "{"
    /\ content[Len(content)] = "}"
    /\ LET inner == SubSeq(content, 2, Len(content) - 1)
           k == LeadingDigits(inner)
       IN /\ k < Len(inner)
          /\ \A i \in (k + 1)..Len(inner) : inner[i] \in {"a", "u00E9", "uFFFD"}

\* the message JSON.parse(content) returns
JSONparse(content) ==
    LET inner == SubSeq(content, 2, Len(content) - 1)
        k == LeadingDigits(inner)
    IN [id |-> NumberOf(SubSeq(inner, 1, k)),
        text |-> SubSeq(inner, k + 1, Len(inner))]

\* the header sendMessage writes in front of a body of n bytes
Header(n) ==
    <<"C", "o", "n", "t", "e", "n", "t", "-", "L", "e", "n", "g", "t", "h",
      ":", " ">> \o Decimal(n) \o Delimiter

\* the bytes sendMessage writes for a body: stdin.write(header + content)
FrameBytes(content) == Utf8(Header(ByteLength(content)) \o content)

\* text.indexOf(sep), counted from 0; -1 when sep does not occur
IndexOf(text, sep) ==
    LET S == {i \in 0..(Len(text) - Len(sep)) :
                 SubSeq(text, i + 1, i + Len(sep)) = sep}
    IN IF S = {} THEN -1 ELSE Least(S)

\* text.split(sep)
RECURSIVE Split(_, _)
Split(text, sep) ==
    LET i == IndexOf(text, sep)
    IN IF i = -1 THEN <<text>>
       ELSE <<SubSeq(text, 1, i)>>
            \o Split(SubSeq(text, i + Len(sep) + 1, Len(text)), sep)

\* key.toLowerCase(), on the letters that occur
ToLowerCase(text) ==
    [i \in 1..Len(text) |->
        IF text[i] = "C" THEN "c" ELSE IF text[i] = "L" THEN "l" ELSE text[i]]

\* parseHeaders(headerText)["content-length"] || "0": the value of the last
\* header line `key: value` with that key, both parts non-empty
ContentLengthOf(headerText) ==
    LET lines == Split(headerText, CRLF)
        pairs == [i \in 1..Len(lines) |-> Split(lines[i], <<":", " ">>)]
        S == {i \in 1..Len(lines) :
                 /\ Len(pairs[i]) >= 2
                 /\ pairs[i][1] # <<>> /\ pairs[i][2] # <<>>
                 /\ ToLowerCase(pairs[i][1]) =
                       <<"c", "o", "n", "t", "e", "n", "t", "-",
                         "l", "e", "n", "g", "t", "h">>}
    IN IF S = {} THEN <<"0">>
       ELSE pairs[CHOOSE i \in S : \A j \in S : j <= i][2]

\* parseInt(text): the number of the leading digits, NaN without one
ParseInt(text) ==
    LET k == LeadingDigits(text)
    IN IF k = 0 THEN [nan |-> TRUE, val |-> 0]
       ELSE [nan |-> FALSE, val |-> NumberOf(SubSeq(text, 1, k))]

\* the while loop of the data handler on the buffer buf: out collects the
\* messages handed to handleMessage, errs counts the frames whose JSON.parse
\* threw (logged and dropped).  A comparison with NaN is false.
RECURSIVE Drain(_, _, _)
Drain(buf, out, errs) ==
    LET index == IndexOf(buf, Delimiter)
        contentLength ==
           IF index = -1 THEN ParseInt(<<>>)
           ELSE ParseInt(ContentLengthOf(SubSeq(buf, 1, index)))
    IN IF \/ index = -1
          \/ contentLength.nan
          \/ ~(Len(buf) >= index + 4 + contentLength.val)
       THEN [buffer |-> buf, out |-> out, errs |-> errs]
       ELSE LET content == SubSeq(buf, index + 5, index + 4 + contentLength.val)
                rest == SubSeq(buf, index + 5 + contentLength.val, Len(buf))
            IN IF JSONvalid(content)
               THEN Drain(rest, Append(out, JSONparse(content)), errs)
               ELSE Drain(rest, out, errs + 1)

\* the bodies a peer frames: the messages sendMessage can be given, and a
\* body that is not JSON (its closing brace is missing)
Bodies == {JSONstringify(m) : m \in Messages} \cup {<<"{", "u00E9">>}

\* a frame with this body is written to the channel, framed as sendMessage
\* frames it
frameWrite(content) ==
    /\ Len(written) < MaxFrames
    /\ written' = Append(written, content)
    /\ pipe' = pipe \o FrameBytes(content)
    /\ UNCHANGED <<buffer, dispatched, logged>>
    /\ UNCHANGED <<backendVars, mapperVars, clientVars>>

\* a 'data' event of stdout delivers the next n bytes of the channel as one
\* chunk: buffer += data.toString(), then the while loop
onData(n) ==
    /\ n \in 1..Len(pipe)
    /\ LET r == Drain(buffer \o toString(SubSeq(pipe, 1, n)), <<>>, 0)
       IN /\ buffer' = r.buffer
          /\ dispatched' = dispatched \o r.out
          /\ logged' = logged + r.errs
    /\ pipe' = SubSeq(pipe, n + 1, Len(pipe))
    /\ UNCHANGED written
    /\ UNCHANGED <<backendVars, mapperVars, clientVars>>

FramerNext ==
    \/ \E content \in Bodies : frameWrite(content)
    \/ \E n \in 1..Len(pipe) : onData(n)

FramerSpec == Init /\ [][FramerNext]_vars

\* header blocks without a usable Content-Length: the value is not a number;
\* the header is missing; the header is missing and a body follows the block
NotANumberBlock ==
    <<"C", "o", "n", "t", "e", "n", "t", "-", "L", "e", "n", "g", "t", "h",
      ":", " ", "x">> \o Delimiter
MissingBlock == <<"X", ":", " ", "1">> \o Delimiter
MissingBlockWithBody == MissingBlock \o <<"{", "a", "}">>
HeaderBlocks == {NotANumberBlock, MissingBlock, MissingBlockWithBody}

\* the backend begins its output with such a header block
writeHeaderBlock(block) ==
    /\ written = <<>> /\ pipe = <<>> /\ buffer = <<>>
    /\ dispatched = <<>> /\ logged = 0
    /\ pipe' = Utf8(block)
    /\ UNCHANGED <<written, buffer, dispatched, logged>>
    /\ UNCHANGED <<backendVars, mapperVars, clientVars>>

HeaderNext ==
    \/ \E block \in HeaderBlocks : writeHeaderBlock(block)
    \/ \E content \in Bodies : frameWrite(content)
    \/ \E n \in 1..Len(pipe) : onData(n)

HeaderSpec == Init /\ [][HeaderNext]_vars


(* ====================== Vue / TypeScript mapping ====================== *)
\* A text is a sequence of characters, one string each; the line feed is
\* "LF" and the carriage return "CR".

LowerLetters ==
    <<"a", "b", "c", "d", "e", "f", "g", "h", "i", "j", "k", "l", "m",
      "n", "o", "p", "q", "r", "s", "t", "u", "v", "w", "x", "y", "z">>
UpperLetters ==
    <<"A", "B", "C", "D", "E", "F", "G", "H", "I", "J", "K", "L", "M",
      "N", "O", "P", "Q", "R", "S", "T", "U", "V", "W", "X", "Y", "Z">>

\* the `i` flag of the tag pattern: letters compare without case
IgnoreCase(text) ==
    [k \in 1..Len(text) |->
        IF \E n \in 1..26 : UpperLetters[n] = text[k]
        THEN LowerLetters[CHOOSE n \in 1..26 : UpperLetters[n] = text[k]]
        ELSE text[k]]

\* \s, on the characters that occur
IsSpace(c) == c \in {" ", "LF", "CR"}

\* a word character, for \b
IsWordChar(c) ==
    \/ \E n \in 1..26 : c = LowerLetters[n] \/ c = UpperLetters[n]
    \/ c \in DigitSet
    \/ c = "_"

Quotes == {"\"", "'"}

\* lang=["']ts["'] at index q
LangTsAt(content, q) ==
    /\ q + 9 <= Len(content)
    /\ IgnoreCase(SubSeq(content, q + 1, q + 5)) = <<"l", "a", "n", "g", "=">>
    /\ content[q + 6] \in Quotes
    /\ IgnoreCase(SubSeq(content, q + 7, q + 8)) = <<"t", "s">>
    /\ content[q + 9] \in Quotes

\* /<script\s+setup\b[^>]*lang=["']ts["'][^>]*>/i tried at index i: the index
\* just after the match, -1 when the pattern does not match there.  No part
\* of the pattern but its last character can consume a `>`, so a match ends
\* at the first `>` after `<script`.
OpeningTagEnd(content, i) ==
    LET n == Len(content)
        gts == {j \in (i + 7)..(n - 1) : content[j + 1] = ">"}
    IN IF \/ i + 7 > n
          \/ content[i + 1] # "<"
          \/ IgnoreCase(SubSeq(content, i + 1, i + 7))
                # <<"<", "s", "c", "r", "i", "p", "t">>
          \/ gts = {}
       THEN -1
       ELSE LET gt == Least(gts)
                ok == \E k \in 1..(gt - i - 12) :
                        /\ \A j \in (i + 7)..(i + 6 + k) : IsSpace(content[j + 1])
                        /\ IgnoreCase(SubSeq(content, i + 8 + k, i + 12 + k))
                              = <<"s", "e", "t", "u", "p">>
                        /\ ~IsWordChar(content[i + 13 + k])
                        /\ \E q \in (i + 12 + k)..(gt - 9) : LangTsAt(content, q)
            IN IF ok THEN gt + 1 ELSE -1

\* content.indexOf(sep, from), counted from 0; -1 when there is none
IndexOfFrom(text, sep, from) ==
    LET S == {i \in from..(Len(text) - Len(sep)) :
                 /\ text[i + 1] = sep[1]
                 /\ SubSeq(text, i + 1, i + Len(sep)) = sep}
    IN IF S = {} THEN -1 ELSE Least(S)

ScriptClose == <<"<", "/", "s", "c", "r", "i", "p", "t", ">">>

\* a search for the closing tag that starts at the beginning of the text
closeIndexAnywhere(content, startIndex) == IndexOfFrom(content, ScriptClose, 0)

\* content.indexOf("</script>", startIndex)
closeIndexOf(content, startIndex) ==
    IndexOfFrom(content, ScriptClose, startIndex)

\* the null result of extractScriptSetup
Null == [start |-> -1, end |-> -1, code |-> <<>>]

\* ScriptExtractor.extractScriptSetup(content)
extractScriptSetup(content) ==
    LET S == {i \in 0..(Len(content) - 1) : OpeningTagEnd(content, i) # -1}
    IN IF S = {} THEN Null
       ELSE LET startIndex == OpeningTagEnd(content, Least(S))
                closeIndex == closeIndexOf(content, startIndex)
            IN IF closeIndex = -1 THEN Null
               ELSE [start |-> startIndex, end |-> closeIndex,
                     code |-> SubSeq(content, startIndex + 1, closeIndex)]

\* the loop of getScriptPosition: i runs up to offset, a line feed at i
\* starts a new line at i + 1
RECURSIVE ScanLines(_, _, _, _, _)
ScanLines(content, offset, i, line, lastLineStart) ==
    IF i >= offset THEN [line |-> line, char |-> offset - lastLineStart]
    ELSE IF content[i + 1] = "LF"
         THEN ScanLines(content, offset, i + 1, line + 1, i + 1)
         ELSE ScanLines(content, offset, i + 1, line, lastLineStart)

\* ScriptExtractor.getScriptPosition(content, offset)
getScriptPosition(content, offset) == ScanLines(content, offset, 0, 0, 0)

\* text.split(/\r?\n/): a line ends at a line feed, and a carriage return
\* just before that line feed belongs to the separator
RECURSIVE SplitLines(_)
SplitLines(text) ==
    LET i == IndexOfFrom(text, <<"LF">>, 0)
    IN IF i = -1 THEN <<text>>
       ELSE LET j == IF i > 0 /\ text[i] = "CR" THEN i - 1 ELSE i
            IN <<SubSeq(text, 1, j)>>
               \o SplitLines(SubSeq(text, i + 2, Len(text)))

\* the loop of positionToOffset: (lines[i]?.length ?? 0) + 1 for i < line
RECURSIVE LinesBefore(_, _)
LinesBefore(lines, line) ==
    IF line = 0 THEN 0
    ELSE LinesBefore(lines, line - 1)
         + (IF line <= Len(lines) THEN Len(lines[line]) ELSE 0) + 1

\* ScriptExtractor.positionToOffset(text, line, character)
positionToOffset(text, line, character) ==
    LinesBefore(SplitLines(text), line) + character

\* the undefined result of a provider or of a conversion
Undefined == [line |-> -1, character |-> -1]

\* VueLanguageProviders.convertVuePositionToTs(document, position)
convertVuePositionToTs(content, position) ==
    LET scriptInfo == extractScriptSetup(content)
        offset == positionToOffset(content, position.line, position.character)
    IN IF scriptInfo = Null THEN Undefined
       ELSE IF offset < scriptInfo.start \/ offset > scriptInfo.end
            THEN Undefined
            ELSE LET relativeOffset == offset - scriptInfo.start
                     linesBeforeOffset ==
                         SplitLines(SubSeq(scriptInfo.code, 1, relativeOffset))
                 IN [line |-> Len(linesBeforeOffset) - 1,
                     character |->
                         Len(linesBeforeOffset[Len(linesBeforeOffset)])]

\* the anchor rule of mapVirtualToVueRange (and of tryMapSetupFileToVue)
\* with the start column added on every line
mapPosEveryLine(mapping, pos) ==
    [line |-> mapping.scriptStartLine + pos.line,
     character |-> mapping.scriptStartChar + pos.character]

\* mapPos of mapVirtualToVueRange (and of tryMapSetupFileToVue)
mapPos(mapping, pos) ==
    [line |-> mapping.scriptStartLine + pos.line,
     character |-> IF pos.line = 0
                   THEN mapping.scriptStartChar + pos.character
                   ELSE pos.character]

\* the Vue file of the editor, and a file outside it
VueUri == [scheme |-> "file", path |-> <<"App", ".vue">>]
LibUri == [scheme |-> "file", path |-> <<"lib", ".d.ts">>]

\* VirtualDocumentManager.createVirtualUri(vueUri)
createVirtualUri(vueUri) ==
    [scheme |-> "vue-tsgo", path |-> vueUri.path \o <<".setup.ts">>]

\* a piece of a path in lower case, as the flag i of the regular
\* expressions reads it
LowerCase(piece) ==
    CASE piece = ".VUE" -> ".vue"
      [] piece = ".Setup.TS" -> ".setup.ts"
      [] OTHER -> piece

\* /\.vue\.setup\.ts$/i.test(path)
EndsInVueSetupTs(path) ==
    /\ Len(path) >= 2
    /\ LowerCase(path[Len(path)]) = ".setup.ts"
    /\ LowerCase(path[Len(path) - 1]) = ".vue"

\* path.replace(/\.setup\.ts$/i, "")
replaceNothing(path) == path
replaceSetupTs(path) ==
    IF Len(path) >= 1 /\ LowerCase(path[Len(path)]) = ".setup.ts"
    THEN SubSeq(path, 1, Len(path) - 1)
    ELSE path

\* VirtualDocumentManager.isVirtualFile(uri)
isVirtualFile(uri) == uri.scheme = "vue-tsgo" /\ EndsInVueSetupTs(uri.path)

\* MappingUtils.needsMapping(uri)
needsMapping(uri) == uri.scheme = "vue-tsgo" /\ EndsInVueSetupTs(uri.path)

\* MappingUtils.mapVirtualToVueFile(uri)
mapVirtualToVueFile(uri) ==
    IF uri.scheme = "vue-tsgo" /\ EndsInVueSetupTs(uri.path)
    THEN [scheme |-> "file", path |-> replaceSetupTs(uri.path)]
    ELSE uri

\* VirtualDocumentManager.getMapping(uri), as the set of its results
getMapping(uri) == {m \in uriToMapping : m.uri = uri}

\* VirtualDocumentManager.setVirtualDocument(uri, text, mapping), on the
\* uriToMapping map
setVirtualDocument(uri, mapping) ==
    {m \in uriToMapping : m.uri # uri}
        \cup {[uri |-> uri, sourceUri |-> mapping.sourceUri,
               scriptStartLine |-> mapping.scriptStartLine,
               scriptStartChar |-> mapping.scriptStartChar]}

\* VirtualDocumentManager.setVirtualDocument(uri, text, mapping), on the
\* uriToText map
setVirtualText(uri, text) ==
    {e \in uriToText : e.uri # uri} \cup {[uri |-> uri, text |-> text]}

\* VirtualDocumentManager.getText(uri), as the set of its results
getText(uri) == {e.text : e \in {x \in uriToText : x.uri = uri}}

\* VirtualDocumentManager.provideTextDocumentContent(uri)
provideTextDocumentContent(uri) ==
    IF getText(uri) = {} THEN <<>> ELSE CHOOSE t \in getText(uri) : TRUE

\* the mapping VueParser.parseVueFile computes for a file with a script region
MappingOf(vueUri, content) ==
    LET scriptInfo == extractScriptSetup(content)
        p == getScriptPosition(content, scriptInfo.start)
    IN [sourceUri |-> vueUri, scriptStartLine |-> p.line,
        scriptStartChar |-> p.char]

\* the texts a Vue document can have
ScriptOpen ==
    <<"<", "s", "c", "r", "i", "p", "t", " ", "s", "e", "t", "u", "p", " ",
      "l", "a", "n", "g", "=", "\"", "t", "s", "\"", ">">>
ScriptOpenUpper ==
    <<"<", "S", "C", "R", "I", "P", "T", " ", " ", "s", "e", "t", "u", "p",
      " ", "L", "A", "N", "G", "=", "'", "T", "S", "'", ">">>
Documents ==
    { <<>>,
      \* the region starts on the first line of the file
      ScriptOpen \o <<"LF", "x", "LF">> \o ScriptClose,
      \* the region starts on the second line and has two lines
      <<"a", "LF">> \o ScriptOpen \o <<"x", "LF", "y">> \o ScriptClose
          \o <<"LF">>,
      \* the same shape with carriage-return line endings
      <<"a", "CR", "LF">> \o ScriptOpen \o <<"CR", "LF", "x", "CR", "LF">>
          \o ScriptClose,
      \* an empty region
      ScriptOpen \o ScriptClose,
      \* a plain script block before the script-setup block
      <<"<", "s", "c", "r", "i", "p", "t", ">", "a">> \o ScriptClose
          \o ScriptOpenUpper \o <<"b">> \o ScriptClose,
      \* an opening tag that is never closed
      ScriptOpen \o <<"x">>,
      \* script setup without the ts marker
      <<"<", "s", "c", "r", "i", "p", "t", " ", "s", "e", "t", "u", "p",
        ">", "x">> \o ScriptClose,
      \* the ts marker before setup: not the pattern of the opening tag
      <<"<", "s", "c", "r", "i", "p", "t", " ", "l", "a", "n", "g", "=", "\"",
        "t", "s", "\"", " ", "s", "e", "t", "u", "p", ">", "x">>
          \o ScriptClose,
      \* an attribute that only begins with setup
      <<"<", "s", "c", "r", "i", "p", "t", " ", "s", "e", "t", "u", "p", "s",
        " ", "l", "a", "n", "g", "=", "\"", "t", "s", "\"", ">">>
          \o ScriptClose }

\* the offsets of a text the editor has a position for: every offset but the
\* one between a carriage return and its line feed
Offsets(content) ==
    {o \in 0..Len(content) :
        ~(o >= 1 /\ o < Len(content)
            /\ content[o] = "CR" /\ content[o + 1] = "LF")}

\* the position the editor reports for an offset
PositionAt(content, o) ==
    LET p == getScriptPosition(content, o)
    IN [line |-> p.line, character |-> p.char]

\* the offsets a provider is asked about: the start and the end of the text
\* and every offset from two before the script region to two after it
Requests(content) ==
    LET scriptInfo == extractScriptSetup(content)
    IN {o \in Offsets(content) :
          \/ o \in {0, Len(content)}
          \/ /\ scriptInfo # Null
             /\ o >= scriptInfo.start - 2
             /\ o <= scriptInfo.end + 2}

Kinds == {"hover", "definition"}

\* the editor shows the Vue document with this text (opened, or edited)
openTextDocument(content) ==
    /\ call.pc # "requesting"
    /\ content # document
    /\ document' = content
    /\ call' = [pc |-> "idle", kind |-> "none", requested |-> 0,
                position |-> [line |-> 0, character |-> 0],
                scriptInfo |-> Null, offset |-> 0, tsPosition |-> Undefined]
    /\ returned' = {}
    /\ mapped' = {}
    /\ UNCHANGED <<uriToMapping, uriToText, opened, mappedUri>>
    /\ UNCHANGED <<backendVars, framerVars, clientVars>>

\* provideHover / provideDefinition of VueLanguageProviders for the position
\* of offset o, up to the request to the language client:
\* convertVuePositionToTs, parseVueFile, ensureTsOpened
provideStart(kind, o) ==
    /\ call.pc # "requesting"
    /\ o \in Requests(document)
    /\ LET position == PositionAt(document, o)
           tsPosition == convertVuePositionToTs(document, position)
           locals(pc) ==
               [pc |-> pc, kind |-> kind, requested |-> o,
                position |-> position,
                scriptInfo |-> extractScriptSetup(document),
                offset |-> positionToOffset(document, position.line,
                                            position.character),
                tsPosition |-> tsPosition]
       IN IF tsPosition = Undefined
          THEN /\ call' = locals("returned")
               /\ UNCHANGED <<uriToMapping, uriToText, opened>>
          ELSE /\ call' = locals("requesting")
               /\ uriToMapping' =
                     setVirtualDocument(createVirtualUri(VueUri),
                                        MappingOf(VueUri, document))
               /\ uriToText' =
                     setVirtualText(createVirtualUri(VueUri),
                                    extractScriptSetup(document).code)
               /\ opened' = opened \cup {createVirtualUri(VueUri)}
    /\ returned' = {}
    /\ mapped' = {}
    /\ UNCHANGED <<document, mappedUri>>
    /\ UNCHANGED <<backendVars, framerVars, clientVars>>

\* the locations the language server can answer a definition request with:
\* the requested position itself in the synthetic document, and a place in
\* another file
Answers ==
    {[uri |-> createVirtualUri(VueUri),
      range |-> [start |-> call.tsPosition, end |-> call.tsPosition]],
     [uri |-> LibUri,
      range |-> [start |-> [line |-> 0, character |-> 0],
                 end |-> [line |-> 0, character |-> 1]]]}

\* the rest of the provider once the language client has answered with
\* definitions: the result is built and, in the finally block, closeTsVirtual
\* sends didClose
provideReturn(definitions) ==
    /\ call.pc = "requesting"
    /\ definitions \subseteq Answers
    /\ returned' =
          IF call.kind = "definition"
          THEN {[uri |-> mapVirtualToVueFile(def.uri), range |-> def.range,
                 of |-> def] : def \in definitions}
          ELSE {}
    /\ opened' = opened \ {createVirtualUri(VueUri)}
    /\ call' = [call EXCEPT !.pc = "returned"]
    /\ UNCHANGED <<document, uriToMapping, uriToText, mapped, mappedUri>>
    /\ UNCHANGED <<backendVars, framerVars, clientVars>>

\* the synthetic ranges mapVirtualToVueRange is applied to: from the synthetic
\* position of the call, or from the start of the synthetic document, to the
\* same position or to the end of the synthetic document
SyntheticRanges ==
    LET scriptInfo == extractScriptSetup(document)
        code == scriptInfo.code
        lines == SplitLines(code)
        last == [line |-> Len(lines) - 1, character |-> Len(lines[Len(lines)])]
        first == IF call.tsPosition = Undefined
                 THEN [line |-> 0, character |-> 0]
                 ELSE call.tsPosition
    IN {[start |-> first, end |-> first], [start |-> first, end |-> last]}

\* mapVirtualToVueRange(tsUri, range) for the synthetic document of the Vue
\* file: undefined (no result) without a mapping
mapVirtualToVueRange(range) ==
    /\ call.pc # "requesting"
    /\ range \in SyntheticRanges
    /\ mapped' =
          {[of |-> range, uri |-> mapping.sourceUri,
            range |-> [start |-> mapPos(mapping, range.start),
                       end |-> mapPos(mapping, range.end)]] :
             mapping \in getMapping(createVirtualUri(VueUri))}
    /\ mapped' # mapped
    /\ UNCHANGED <<document, uriToMapping, uriToText, opened, call, returned,
                   mappedUri>>
    /\ UNCHANGED <<backendVars, framerVars, clientVars>>

MapperNext ==
    \/ \E content \in Documents : openTextDocument(content)
    \/ \E kind \in Kinds, o \in Requests(document) : provideStart(kind, o)
    \/ \E definitions \in SUBSET Answers : provideReturn(definitions)
    \/ \E range \in SyntheticRanges : mapVirtualToVueRange(range)

MapperSpec == Init /\ [][MapperNext]_vars


(* ===================== extension: client, providers =================== *)
\* LanguageClient instances created so far
Created == {k \in Clients : clientState[k] # "none"}

\* `if (this.client)` of VueTsgoClient.start() and stop()
HeldClientNever(cl) == FALSE
HeldClient(cl) == cl # 0

\* the start(), stop() and restart() calls of VueTsgoClient are issued one
\* after the other: a call begins when the one before it has completed
Invocation(name) ==
    [name |-> name, pc |-> "idle", before |-> client, states |-> clientState]

\* VueTsgoClient.start() up to its first await: `await this.stop()` when a
\* client is held, `await ConfigManager.getTsgoPath()` otherwise
clientStart ==
    /\ op.pc = "idle"
    /\ Cardinality(Created) < MaxClients
    /\ op' = [Invocation("start") EXCEPT
                 !.pc = IF HeldClient(client) THEN "stopping" ELSE "path"]
    /\ UNCHANGED <<client, clientState, provides>>
    /\ UNCHANGED <<backendVars, framerVars, mapperVars>>

\* VueTsgoClient.stop() up to `await this.client.stop()`; with no client
\* held the call returns at once
clientStop ==
    /\ op.pc = "idle"
    /\ op' = [Invocation("stop") EXCEPT
                 !.pc = IF HeldClient(client) THEN "stopping" ELSE "idle"]
    /\ UNCHANGED <<client, clientState, provides>>
    /\ UNCHANGED <<backendVars, framerVars, mapperVars>>

\* VueTsgoClient.restart() up to the first await of its `await this.stop()`
clientRestart ==
    /\ op.pc = "idle"
    /\ Cardinality(Created) < MaxClients
    /\ op' = [Invocation("restart") EXCEPT
                 !.pc = IF HeldClient(client) THEN "stopping" ELSE "path"]
    /\ UNCHANGED <<client, clientState, provides>>
    /\ UNCHANGED <<backendVars, framerVars, mapperVars>>

\* client.stop() has resolved (ok): stop() clears this.client and returns;
\* the language server of the stopped client is gone and with it the
\* documents that were open in it; start() and restart() go on to
\* getTsgoPath().  When client.stop() has rejected, the call rejects with
\* this.client as it was
clientStopped(ok) ==
    /\ op.pc = "stopping"
    /\ IF ok
       THEN /\ clientState' = [clientState EXCEPT ![client] = "stopped"]
            /\ client' = 0
            /\ opened' = {}
            /\ op' = [op EXCEPT
                         !.pc = IF op.name = "stop" THEN "idle" ELSE "path"]
       ELSE /\ op' = [op EXCEPT !.pc = "idle", !.name = "rejected"]
            /\ UNCHANGED <<clientState, client, opened>>
    /\ UNCHANGED provides
    /\ UNCHANGED <<document, uriToMapping, uriToText, call, returned, mapped, mappedUri>>
    /\ UNCHANGED <<backendVars, framerVars>>

\* getTsgoPath() has resolved: createClient, the assignment to this.client,
\* and client.start() up to its await
clientCreate ==
    /\ op.pc = "path"
    /\ LET k == Cardinality(Created) + 1
       IN /\ client' = k
          /\ clientState' = [clientState EXCEPT ![k] = "starting"]
    /\ op' = [op EXCEPT !.pc = "starting"]
    /\ UNCHANGED provides
    /\ UNCHANGED <<backendVars, framerVars, mapperVars>>

\* client.start() has resolved (ok) or rejected
clientStarted(ok) ==
    /\ op.pc = "starting"
    /\ clientState' =
          [clientState EXCEPT ![client] = IF ok THEN "running" ELSE "failed"]
    /\ op' = [op EXCEPT !.pc = "idle"]
    /\ UNCHANGED <<client, provides>>
    /\ UNCHANGED <<backendVars, framerVars, mapperVars>>

\* the texts of the Vue document while provider invocations overlap: one
\* with a script region and one without
ProviderDocuments ==
    {ScriptOpen \o <<"x">> \o ScriptClose, <<"<", "p", ">">>}

\* the offsets the overlapping invocations ask for: the start of the text,
\* outside the script region, and the start of the region
ProviderOffsets(content) == {o \in {0, Len(ScriptOpen)} : o <= Len(content)}

\* the block `finally { await this.closeTsVirtual(...) }` runs whatever the
\* outcome of the requests was
closeOnlyWithResult(outcome) == outcome = "result"
closeTsVirtualRuns(outcome) == outcome \in {"result", "none", "fail"}

\* provideHover / provideDefinition up to `await parseVueFile(...)`:
\* getClient() and convertVuePositionToTs for the position of offset o
provideCall(c, kind, o) ==
    /\ provides[c].pc \in {"idle", "returned"}
    /\ o \in ProviderOffsets(document)
    /\ LET position == PositionAt(document, o)
           tsPosition == convertVuePositionToTs(document, position)
       IN provides' =
             [provides EXCEPT ![c] =
                 [IdleProvide EXCEPT
                     !.kind = kind,
                     !.pc = IF client = 0 \/ tsPosition = Undefined
                            THEN "returned" ELSE "parse"]]
    /\ UNCHANGED <<client, clientState, op>>
    /\ UNCHANGED <<backendVars, framerVars, mapperVars>>

\* parseVueFile once workspace.openTextDocument has resolved (ok) or rejected:
\* without a script region, or on an error, the provider returns; otherwise
\* setVirtualDocument, ensureTsOpened (didOpen) and the definition request
provideParsed(c, ok) ==
    /\ provides[c].pc = "parse"
    /\ IF ok /\ extractScriptSetup(document) # Null
       THEN LET tsUri == createVirtualUri(VueUri)
            IN /\ uriToMapping' =
                     setVirtualDocument(tsUri, MappingOf(VueUri, document))
               /\ uriToText' =
                     setVirtualText(tsUri, extractScriptSetup(document).code)
               /\ opened' = opened \cup {tsUri}
               /\ provides' = [provides EXCEPT ![c].pc = "definition",
                                             ![c].tsUri = tsUri,
                                             ![c].didOpen = @ + 1]
       ELSE /\ provides' = [provides EXCEPT ![c].pc = "returned"]
            /\ UNCHANGED <<uriToMapping, uriToText, opened>>
    /\ UNCHANGED <<document, call, returned, mapped, mappedUri>>
    /\ UNCHANGED <<client, clientState, op>>
    /\ UNCHANGED <<backendVars, framerVars>>

\* closeTsVirtual(client, tsUri): didClose for the synthetic document
closeTsVirtual(c, outcome) ==
    IF closeTsVirtualRuns(outcome)
    THEN /\ opened' = opened \ {provides[c].tsUri}
         /\ provides' = [provides EXCEPT ![c].pc = "returned",
                                         ![c].outcome = outcome,
                                         ![c].didClose = @ + 1]
    ELSE /\ provides' = [provides EXCEPT ![c].pc = "returned",
                                         ![c].outcome = outcome]
         /\ UNCHANGED opened

\* requestDefinition has returned: a result, nothing, or undefined after a
\* failed request.  provideHover goes on to requestHover; provideDefinition
\* maps the result and leaves through its finally block
provideDefinitions(c, outcome) ==
    /\ provides[c].pc = "definition"
    /\ IF provides[c].kind = "hover"
       THEN /\ provides' = [provides EXCEPT ![c].pc = "hover"]
            /\ UNCHANGED opened
       ELSE closeTsVirtual(c, outcome)
    /\ UNCHANGED <<document, uriToMapping, uriToText, call, returned, mapped, mappedUri>>
    /\ UNCHANGED <<client, clientState, op>>
    /\ UNCHANGED <<backendVars, framerVars>>

\* requestHover has returned: provideHover builds the hover and leaves
\* through its finally block
provideHovered(c, outcome) ==
    /\ provides[c].pc = "hover"
    /\ closeTsVirtual(c, outcome)
    /\ UNCHANGED <<document, uriToMapping, uriToText, call, returned, mapped, mappedUri>>
    /\ UNCHANGED <<client, clientState, op>>
    /\ UNCHANGED <<backendVars, framerVars>>

Outcomes == {"result", "none", "fail"}

ExtensionNext ==
    \/ clientStart
    \/ clientStop
    \/ clientRestart
    \/ \E ok \in BOOLEAN : clientStopped(ok)
    \/ clientCreate
    \/ \E ok \in BOOLEAN : clientStarted(ok)
    \/ \E content \in ProviderDocuments : openTextDocument(content)
    \/ \E c \in Provides, kind \in Kinds, o \in ProviderOffsets(document) :
          provideCall(c, kind, o)
    \/ \E c \in Provides, ok \in BOOLEAN : provideParsed(c, ok)
    \/ \E c \in Provides, outcome \in Outcomes : provideDefinitions(c, outcome)
    \/ \E c \in Provides, outcome \in Outcomes : provideHovered(c, outcome)

ExtensionSpec == Init /\ [][ExtensionNext]_vars

(* ====================== VirtualDocumentManager ======================== *)
\* the synthetic documents the manager is asked about
ManagerUris ==
    {createVirtualUri([scheme |-> "file", path |-> <<name, ".vue">>]) :
        name \in {"App", "Home", "List"}}

\* their texts and mappings
ManagerTexts == {<<>>, <<"x">>}
ManagerMappings ==
    {[sourceUri |-> VueUri, scriptStartLine |-> l, scriptStartChar |-> 0] :
        l \in {0, 1}}

\* uriToMapping.delete(key)
deleteMappingNever(uri) == uriToMapping
deleteMapping(uri) == {m \in uriToMapping : m.uri # uri}

\* uriToText.delete(key)
deleteText(uri) == {e \in uriToText : e.uri # uri}

\* VirtualDocumentManager.setVirtualDocument(uri, text, mapping) as a call
setVirtualDocumentCall(uri, text, mapping) ==
    /\ uriToText' = setVirtualText(uri, text)
    /\ uriToMapping' = setVirtualDocument(uri, mapping)
    /\ <<uriToText', uriToMapping'>> # <<uriToText, uriToMapping>>
    /\ UNCHANGED <<document, opened, call, returned, mapped, mappedUri>>
    /\ UNCHANGED <<backendVars, framerVars, clientVars>>

\* VirtualDocumentManager.disposeVirtualDocument(uri)
disposeVirtualDocument(uri) ==
    /\ uriToText' = deleteText(uri)
    /\ uriToMapping' = deleteMapping(uri)
    /\ <<uriToText', uriToMapping'>> # <<uriToText, uriToMapping>>
    /\ UNCHANGED <<document, opened, call, returned, mapped, mappedUri>>
    /\ UNCHANGED <<backendVars, framerVars, clientVars>>

ManagerNext ==
    \/ \E uri \in ManagerUris, text \in ManagerTexts,
          mapping \in ManagerMappings :
          setVirtualDocumentCall(uri, text, mapping)
    \/ \E uri \in ManagerUris : disposeVirtualDocument(uri)

ManagerSpec == Init /\ [][ManagerNext]_vars

(* ============================ virtual URIs ============================ *)
\* the pieces paths are made of, and the paths of up to MaxPath pieces
Pieces == {"App", ".vue", ".VUE", ".ts", ".setup.ts", ".Setup.TS"}
Paths == UNION {[1..n -> Pieces] : n \in 1..MaxPath}

\* the URIs the mapping is applied to
Uris == [scheme : {"file", "vue-tsgo", "untitled"}, path : Paths]

\* createVirtualUri, isVirtualFile, needsMapping and mapVirtualToVueFile
\* applied to uri, and mapVirtualToVueFile applied to its own result
mapUri(uri) ==
    /\ mappedUri' =
          [of |-> uri,
           virtual |-> isVirtualFile(createVirtualUri(uri)),
           needs |-> needsMapping(createVirtualUri(uri)),
           to |-> mapVirtualToVueFile(uri),
           twice |-> mapVirtualToVueFile(mapVirtualToVueFile(uri))]
    /\ UNCHANGED <<document, uriToMapping, uriToText, opened, call, returned,
                   mapped>>
    /\ UNCHANGED <<backendVars, framerVars, clientVars>>

UriNext == \E uri \in Uris : mapUri(uri)

UriSpec == Init /\ [][UriNext]_vars

(* ============================== claims ================================ *)

\* C1: every registered sendRequest call has been settled at most once, and it
\* is in the pending map exactly as long as it has not been settled: the
\* response, the timeout or stop() that settles it also removes its entry, and
\* whichever of them comes later finds no entry and settles nothing.
C1_SettledOnce ==
    /\ pendingRequests \subseteq DOMAIN calls
    /\ \A id \in DOMAIN calls :
          /\ calls[id].settles <= 1
          /\ (id \in pendingRequests) = (calls[id].settles = 0)
          /\ (calls[id].settles = 0) = (calls[id].by = "none")

\* C1 witness: one call was settled by its response and its timer fired
\* afterwards, another one was settled by its timeout and its response
\* arrived afterwards
C1_Witness ==
    /\ \E id \in DOMAIN calls :
          /\ calls[id].by \in {"result", "error"}
          /\ calls[id].timer = "fired"
          /\ calls[id].settles = 1
    /\ \E id \in DOMAIN calls :
          /\ calls[id].by = "timeout"
          /\ id \in answered
          /\ calls[id].settles = 1

\* the ids of the requests on the wire, in the order in which they were written
RequestIds == SelectSeq(wire, LAMBDA m : m.id # 0)

\* C2: every request written to a backend carries a positive id that is
\* greater than the id of every request written before it.
C2_IdsIncrease ==
    /\ \A i \in 1..Len(wire) : wire[i].id >= 0
    /\ \A i, j \in 1..Len(RequestIds) :
          i < j => RequestIds[i].id < RequestIds[j].id
    /\ \A id \in DOMAIN calls : 0 < id /\ id <= requestId

\* C2 witness: requests were written before and after a stop()/start() cycle,
\* to two different processes, and the first two calls overlapped: the
\* initialize call was still pending when the shutdown request was written,
\* since it was the stop() that rejected it
C2_Witness ==
    /\ \E i, j, k \in 1..Len(wire) :
          /\ i < j /\ j < k
          /\ wire[i].method = "initialize" /\ wire[i].proc = 1 /\ wire[i].id = 1
          /\ wire[j].method = "shutdown" /\ wire[j].id = 2
          /\ wire[k].method = "initialize" /\ wire[k].proc = 2 /\ wire[k].id = 3
    /\ calls[1].by = "stopped"
    /\ stopSt[1].pc = "done"

\* the step is the 'exit' event of a process that nobody killed
UnexpectedExit ==
    \E p \in Procs : procState[p] = "alive" /\ procState'[p] = "exited"

\* C3: the unexpected exit of a backend process rejects every pending call at
\* the time of the exit and leaves the pending map empty.
C3_ExitRejectsPending ==
    [][UnexpectedExit =>
          /\ pendingRequests' = {}
          /\ \A id \in pendingRequests : calls'[id].settles = 1]_vars

\* the step is the spawn of a start() invocation
SpawnStep ==
    \E s \in Starts : startSt[s].pc = "path" /\ startSt'[s].pc = "wait"

\* the step begins a provideDefinition / provideHover call, or continues it to
\* its sendRequest
ProvideStep(f) == featSt[f].pc \in {"idle", "opened"} /\ featSt'[f] # featSt[f]

\* C4: the unexpected exit of a backend process leaves the bridge without a
\* handle, and the bridge stays without one until a start() spawns again;
\* while it has none, no step writes to a process, allocates an id or adds a
\* pending entry, and every step of a provideDefinition / provideHover call
\* ends the call with null.
C4_UnavailableAfterExit ==
    [][/\ UnexpectedExit => tsgoProcess' = 0
       /\ (tsgoProcess = 0 /\ ~SpawnStep) =>
             /\ tsgoProcess' = 0
             /\ wire' = wire
             /\ requestId' = requestId
             /\ pendingRequests' \subseteq pendingRequests
             /\ \A f \in Features :
                   ProvideStep(f) =>
                      /\ featSt'[f].pc = "done"
                      /\ featSt'[f].result = "null"]_vars

\* C4 witness: a process that had been started exited on its own account
\* while a call was pending, the bridge has no handle, and a feature call has
\* returned null without anything written for it
C4_Witness ==
    /\ \E p \in Procs :
          /\ procState[p] = "exited"
          /\ startSt[p].outcome = "started"
    /\ tsgoProcess = 0
    /\ pendingRequests # {}
    /\ \E f \in Features : featSt[f].pc = "done" /\ featSt[f].result = "null"
    /\ \A i \in 1..Len(wire) : wire[i].method # "textDocument/didOpen"

\* C5: stop() never throws, whatever the backend does while stop() waits for
\* the answer to its shutdown request.
C5_StopFailsSoft ==
    \A t \in Stops : stopSt[t].pc # "threw"

\* the messages written to process p, in the order in which they were written
WireOf(p) == SelectSeq(wire, LAMBDA m : m.proc = p)

FeatureMethods ==
    {"textDocument/didOpen", "textDocument/definition", "textDocument/hover"}

\* C6: on every process the first message written is the initialize request,
\* the initialized notification follows the arrival of the initialize result,
\* and a feature message is written only after the initialized notification.
C6_HandshakeFirst ==
    \A p \in Procs :
       LET w == WireOf(p) IN
       /\ w # <<>> => w[1].method = "initialize"
       /\ \A i \in 1..Len(w) :
             w[i].method = "initialized" =>
                \E j \in 1..(i - 1) :
                   /\ w[j].method = "initialize"
                   /\ calls[w[j].id].by = "result"
       /\ \A i \in 1..Len(w) :
             w[i].method \in FeatureMethods =>
                \E j \in 1..(i - 1) : w[j].method = "initialized"

\* C7: a provideDefinition / provideHover call that was issued before any
\* start() had completed the handshake returns null.
C7_EarlyCallNull ==
    \A f \in Features :
       (featSt[f].pc = "done" /\ featSt[f].early) => featSt[f].result = "null"

C9_ThreeOutcomes ==
    \A s \in Starts :
       startSt[s].resolved => startSt[s].outcome \in {"error", "exit", "started"}

\* C10: after a start() has failed on a spawn error, and as long as no later
\* start() has been called, the bridge holds no process handle.
C10_UnavailableAfterSpawnError ==
    \A s \in Starts :
       (/\ startSt[s].outcome = "error"
        /\ \A r \in Starts : r > s => startSt[r].pc = "idle")
       => tsgoProcess = 0

\* the positions of the wire that hold a message of this method
PositionsOf(method) == {i \in 1..Len(wire) : wire[i].method = method}

\* C11: every provideDefinition / provideHover call that has returned and had
\* sent textDocument/didOpen has been followed by a textDocument/didClose:
\* the wire holds didOpen, then the request, then didClose, and no more
\* documents have been opened than closed once the opening calls are over.
C11_DidCloseFollows ==
    /\ \A f \in Features :
          (featSt[f].pc = "done" /\ featSt[f].await # 0) =>
             \E i, j, k \in 1..Len(wire) :
                /\ i < j /\ j < k
                /\ wire[i].method = "textDocument/didOpen"
                /\ wire[j].id = featSt[f].await
                /\ wire[k].method = "textDocument/didClose"
    /\ Cardinality(PositionsOf("textDocument/didOpen"))
          <= Cardinality(PositionsOf("textDocument/didClose"))
             + Cardinality({f \in Features : featSt[f].pc \in {"opened", "wait"}})

\* C12: provideDefinition and provideHover never throw: a call that has
\* returned has returned null or the result of its request, and it has
\* returned null whenever it sent no request (no document, no process) or its
\* request ended with an error response, with the timeout or with stop().
C12_FeatureFailsSoft ==
    \A f \in Features :
       /\ featSt[f].result \in {"none", "null", "result"}
       /\ featSt[f].pc = "done" =>
             /\ featSt[f].result # "none"
             /\ featSt[f].await = 0 => featSt[f].result = "null"
             /\ featSt[f].await # 0 =>
                   /\ calls[featSt[f].await].by # "none"
                   /\ calls[featSt[f].await].by \in {"error", "timeout", "stopped"}
                         => featSt[f].result = "null"

\* C12 witness: one call has returned after the error response to its
\* request and another one after the timeout of its request
C12_Witness ==
    \E f, g \in Features :
       /\ featSt[f].pc = "done" /\ featSt[f].await # 0
       /\ calls[featSt[f].await].by = "error"
       /\ featSt[g].pc = "done" /\ featSt[g].await # 0
       /\ calls[featSt[g].await].by = "timeout"

\* the message whose JSON.stringify is this body
MessageOf(content) == CHOOSE m \in Messages : JSONstringify(m) = content

\* the bodies that JSON.stringify produces
MessageBodies == {JSONstringify(m) : m \in Messages}

\* the step delivers all the bytes of the channel as one chunk
WholeChunk == written' = written /\ pipe # <<>> /\ pipe' = <<>>

\* C13: framing round-trip.  When the decoder buffer is empty and the channel
\* holds exactly the bytes sendMessage writes for a message m, the data event
\* that delivers them dispatches exactly m and leaves the buffer empty.
C13_RoundTrip ==
    [][(/\ WholeChunk
        /\ buffer = <<>>
        /\ written[Len(written)] \in MessageBodies
        /\ pipe = FrameBytes(written[Len(written)]))
       => /\ dispatched' = Append(dispatched, MessageOf(written[Len(written)]))
          /\ buffer' = <<>>
          /\ logged' = logged]_vars

\* the bytes of a sequence of frames
RECURSIVE AllBytes(_)
AllBytes(bodies) ==
    IF bodies = <<>> THEN <<>>
    ELSE FrameBytes(Head(bodies)) \o AllBytes(Tail(bodies))

\* the bytes delivered to the data handler so far
Delivered ==
    SubSeq(AllBytes(written), 1, Len(AllBytes(written)) - Len(pipe))

\* the number of frames of bodies that lie whole within the first n bytes
RECURSIVE FramesWithin(_, _)
FramesWithin(bodies, n) ==
    IF bodies = <<>> \/ Len(FrameBytes(Head(bodies))) > n THEN 0
    ELSE 1 + FramesWithin(Tail(bodies), n - Len(FrameBytes(Head(bodies))))

\* C14: partial-read tolerance.  However the bytes delivered so far were cut
\* into chunks, the decoder has dispatched the messages, logged the frames
\* and kept the buffer that one chunk holding all these bytes leads to; and
\* it has taken no more frames out of the buffer than have arrived whole.
C14_ChunkingIrrelevant ==
    LET whole == Drain(toString(Delivered), <<>>, 0)
    IN /\ dispatched = whole.out
       /\ logged = whole.errs
       /\ buffer = whole.buffer
       /\ Len(dispatched) + logged <= FramesWithin(written, Len(Delivered))

\* the messages of the frames with these bodies, in order; a body that is
\* not JSON carries none
RECURSIVE MessagesIn(_)
MessagesIn(bodies) ==
    IF bodies = <<>> THEN <<>>
    ELSE (IF Head(bodies) \in MessageBodies
          THEN <<MessageOf(Head(bodies))>> ELSE <<>>) \o MessagesIn(Tail(bodies))

\* the step is a data event
DataStep == written' = written /\ pipe' # pipe

\* the frames completed by the chunk of this step: those that lie whole
\* within the bytes delivered after the step and did not before it
CompletedByStep ==
    SubSeq(written, FramesWithin(written, Len(Delivered)) + 1,
                    FramesWithin(written, Len(Delivered')))

\* C15: when a data chunk completes k frames, the data handler hands the
\* messages of all k frames to handleMessage, in wire order, in that step.
C15_AllFramesOfChunk ==
    [][DataStep => dispatched' = dispatched \o MessagesIn(CompletedByStep)]_vars

\* the frames of the sequence whose body is not JSON
Undecodable(bodies) == {i \in 1..Len(bodies) : bodies[i] \notin MessageBodies}

\* C16: a frame whose body is not valid JSON is logged and dropped, and
\* nothing else is lost with it: once all bytes of a sequence of frames with
\* such a frame have been delivered, every such frame has been logged once,
\* none has reached handleMessage, the messages of all other frames have
\* been dispatched in order, and nothing is left in the buffer.
C16_BadFrameDropped ==
    (pipe = <<>> /\ Undecodable(written) # {}) =>
       /\ logged = Cardinality(Undecodable(written))
       /\ dispatched = MessagesIn(written)
       /\ buffer = <<>>

\* the step runs the timeout callback of the pending call id
TimeoutStep(id) ==
    /\ id \in pendingRequests
    /\ calls[id].timer = "armed"
    /\ calls'[id].timer = "fired"

\* C17: the timeout of a pending call rejects that call with the timeout
\* failure and removes its entry, and touches nothing else: every other
\* pending call stays pending and unsettled, and the handle and the process
\* are left as they are.
C17_TimeoutIsolated ==
    [][\A id \in DOMAIN calls :
          TimeoutStep(id) =>
             /\ calls'[id].by = "timeout"
             /\ calls'[id].settles = 1
             /\ pendingRequests' = pendingRequests \ {id}
             /\ \A j \in DOMAIN calls \ {id} :
                   /\ calls'[j].by = calls[j].by
                   /\ calls'[j].settles = calls[j].settles
             /\ tsgoProcess' = tsgoProcess
             /\ procState' = procState]_vars

\* C17 witness: the timeout callback of one call has just run (the
\* continuation it woke is the only one queued and has not run yet) while a
\* call issued later is still pending on a live process
C17_Witness ==
    \E i, j \in DOMAIN calls :
       /\ i < j
       /\ calls[i].by = "timeout"
       /\ mq = <<calls[i].owner>>
       /\ j \in pendingRequests
       /\ calls[j].by = "none"
       /\ procState[calls[j].proc] = "alive"
       /\ tsgoProcess = calls[j].proc

\* the step hands the response to call id to handleMessage
ResponseStep(id) == id \notin answered /\ id \in answered'

\* C18: a response with id k settles the pending call issued under id k, as
\* resolved or rejected by that response, and removes its entry; it settles
\* no other call and removes no other entry, whichever calls are pending and
\* in whatever order the responses arrive.
C18_ResponseCorrelated ==
    [][\A id \in Ids :
          ResponseStep(id) =>
             /\ \A j \in DOMAIN calls \ {id} :
                   /\ calls'[j] = calls[j]
                   /\ (j \in pendingRequests') = (j \in pendingRequests)
             /\ id \in pendingRequests =>
                   /\ id \notin pendingRequests'
                   /\ calls'[id].by \in {"result", "error"}
                   /\ calls'[id].settles = 1]_vars

\* C18 witness: responses out of order: a call has been settled by its
\* response while a call issued before it on the same process is still
\* pending and has had no response
C18_Witness ==
    \E i, j \in DOMAIN calls :
       /\ i < j
       /\ calls[i].proc = calls[j].proc
       /\ i \in pendingRequests /\ i \notin answered
       /\ calls[j].by \in {"result", "error"}
       /\ j \in answered

\* the methods that are sent with sendNotification
NotificationMethods ==
    {"initialized", "exit", "textDocument/didOpen", "textDocument/didClose"}

\* the step writes one message, and it is a notification
NotificationStep ==
    /\ Len(wire') = Len(wire) + 1
    /\ wire'[Len(wire')].method \in NotificationMethods

\* C19: sendNotification is fire-and-forget: the message it writes has no id,
\* and the step that writes it leaves the id counter, the pending set and
\* every registered call as they are.
C19_NotificationNoId ==
    [][NotificationStep =>
          /\ wire'[Len(wire')].id = 0
          /\ requestId' = requestId
          /\ pendingRequests' = pendingRequests
          /\ calls' = calls]_vars

\* C19 witness: a notification is the last message written, and it was
\* written while the counter was positive and a call was pending
C19_Witness ==
    /\ wire # <<>>
    /\ wire[Len(wire)].method \in NotificationMethods
    /\ wire[Len(wire)].id = 0
    /\ requestId > 0
    /\ \E i \in pendingRequests :
          \E k \in 1..(Len(wire) - 1) : wire[k].id = i

\* C20: a response whose id has no pending entry is dropped: the step that
\* hands it to handleMessage settles no call, wakes nobody, raises nothing,
\* and leaves the pending set and the id counter as they are.
C20_UnmatchedDropped ==
    [][\A id \in Ids :
          (ResponseStep(id) /\ id \notin pendingRequests) =>
             /\ calls' = calls
             /\ pendingRequests' = pendingRequests
             /\ requestId' = requestId
             /\ mq' = mq
             /\ uncaught' = uncaught]_vars

\* C20 witness: the response to a call arrived after the call had timed out,
\* while another call was pending, and the call is still settled once, by
\* the timeout
C20_Witness ==
    \E id \in DOMAIN calls :
       /\ id \in answered
       /\ calls[id].by = "timeout"
       /\ calls[id].settles = 1
       /\ pendingRequests # {}

\* the step kills a process
KillStep == \E p \in Procs : procState[p] = "alive" /\ procState'[p] = "killed"

\* the shutdown request of stop() invocation t has been written
ShutdownWritten(t) ==
    \E i \in 1..Len(wire) :
       wire[i].method = "shutdown" /\ wire[i].id = stopSt[t].await

\* C21: stop() proceeds in the order shutdown request, exit notification,
\* kill.  The step of a stop() that writes the exit notification comes after
\* its shutdown request was written and answered with a result, and kills
\* nothing; a process is killed only by the step of a stop() that ends it,
\* after its shutdown request was written and either the exit notification
\* was written too or the shutdown call had failed; and while a stop() waits
\* for the shutdown call, the call is pending with its 30 s timer armed, or
\* it is settled and the continuation of the stop() is queued.
C21_StopOrder ==
    /\ [](\A t \in Stops :
            stopSt[t].pc = "shutdown" =>
               \/ /\ stopSt[t].await \in pendingRequests
                  /\ calls[stopSt[t].await].timer = "armed"
               \/ /\ calls[stopSt[t].await].by # "none"
                  /\ \E i \in 1..Len(mq) : mq[i] = Owner("stop", t))
    /\ [][/\ \A t \in Stops :
               (stopSt[t].pc = "shutdown" /\ stopSt'[t].pc = "exit") =>
                  /\ ShutdownWritten(t)
                  /\ calls[stopSt[t].await].by = "result"
                  /\ stopSt[t].await \in answered
                  /\ Len(wire') = Len(wire) + 1
                  /\ wire'[Len(wire')].method = "exit"
                  /\ procState' = procState
          /\ KillStep =>
                \E t \in Stops :
                   /\ stopSt[t].pc \in {"shutdown", "exit"}
                   /\ stopSt'[t].pc = "done"
                   /\ ShutdownWritten(t)
                   /\ stopSt[t].pc = "shutdown" =>
                         calls[stopSt[t].await].by \in {"error", "timeout", "stopped"}
                   /\ wire' = wire]_vars

\* C21 witness: a stop() has run to its end in full: its shutdown request was
\* answered with a result, the exit notification was written after the
\* request to the same process, and that process has been killed
C21_Witness ==
    \E t \in Stops :
       /\ stopSt[t].pc = "done"
       /\ stopSt[t].await # 0
       /\ calls[stopSt[t].await].by = "result"
       /\ \E i, j \in 1..Len(wire) :
             /\ i < j
             /\ wire[i].method = "shutdown" /\ wire[i].id = stopSt[t].await
             /\ wire[j].method = "exit" /\ wire[j].proc = wire[i].proc
             /\ procState[wire[i].proc] \in {"killed", "dead"}

\* a start() invocation has been called and has not returned
StartRunning(s) == startSt[s].pc \in {"path", "wait", "started", "init"}

\* a stop() invocation has been called and has not returned
StopRunning(t) == stopSt[t].pc \in {"shutdown", "exit"}

\* C22: start() and stop() are serialized: no start() and stop() are in
\* progress at the same time, every process that is alive is the one the
\* handle refers to, and no error has been raised outside the calls.
C22_StartStopSerialized ==
    /\ \A s \in Starts, t \in Stops : ~(StartRunning(s) /\ StopRunning(t))
    /\ \A p \in Procs : procState[p] = "alive" => tsgoProcess = p
    /\ uncaught = 0

\* C23: every timeout timer that is armed belongs to a call that is still
\* pending: a call settled by its response or by stop() has no armed timer.
C23_NoOrphanTimer ==
    \A id \in DOMAIN calls :
       calls[id].timer = "armed" => id \in pendingRequests

(* ---------------------- mapping claims (MapperSpec) ------------------- *)
\* the synthetic document of the Vue file
TsUri == createVirtualUri(VueUri)

\* a provider has been asked about an offset of the current document
Asked == call.pc # "idle"

\* C24: for every offset of the script region (region.start <= o <=
\* region.end), converting its position to a synthetic position with
\* convertVuePositionToTs and mapping that position back with the recorded
\* anchor by the rule of mapVirtualToVueRange gives the line and character
\* of o in the Vue file again.
C24_MappingRoundTrip ==
    (/\ Asked
     /\ call.scriptInfo # Null
     /\ call.requested >= call.scriptInfo.start
     /\ call.requested <= call.scriptInfo.end)
    => /\ call.tsPosition # Undefined
       /\ \A m \in mapped :
             m.of.start = call.tsPosition => m.range.start = call.position

\* C27: positionToOffset applied to the line and character getScriptPosition
\* gives for an offset o returns o, on every text, and neither result is
\* negative.
C27_PrimitivesAgree ==
    Asked =>
       /\ call.offset = call.requested
       /\ call.position.line >= 0
       /\ call.position.character >= 0
       /\ call.offset >= 0

\* C28: a position at offset region.start or region.end is converted to a
\* synthetic position; a position at offset region.start - 1 or
\* region.end + 1 yields undefined and nothing is opened at the backend.
C28_InclusiveBounds ==
    (Asked /\ call.scriptInfo # Null) =>
       /\ call.requested \in {call.scriptInfo.start, call.scriptInfo.end}
             => call.tsPosition # Undefined
       /\ call.requested \in {call.scriptInfo.start - 1,
                              call.scriptInfo.end + 1}
             => (call.tsPosition = Undefined /\ TsUri \notin opened)

\* the position the asymmetric rule gives for a synthetic position under an
\* anchor
Anchored(a, pos) ==
    IF pos.line = 0
    THEN [line |-> a.scriptStartLine,
          character |-> a.scriptStartChar + pos.character]
    ELSE [line |-> a.scriptStartLine + pos.line, character |-> pos.character]

\* C25: mapVirtualToVueRange maps a position of synthetic line 0 to
\* (startLine, startChar + character) and a position of a later line to
\* (startLine + line, character); both ends of the range are mapped so, and
\* the result names the source document of the anchor.
C25_AsymmetricRule ==
    \A m \in mapped :
       \E a \in uriToMapping :
          /\ a.uri = TsUri
          /\ m.uri = a.sourceUri
          /\ m.range.start = Anchored(a, m.of.start)
          /\ m.range.end = Anchored(a, m.of.end)

\* a range from synthetic line 0 to a later line has been mapped, under an
\* anchor with a start line and a start column
C25_Witness ==
    \E m \in mapped, a \in uriToMapping :
       /\ m.of.start.line = 0
       /\ m.of.start.character > 0
       /\ m.of.end.line > 0
       /\ m.of.end.character > 0
       /\ a.scriptStartLine > 0
       /\ a.scriptStartChar > 0

\* C26: every location of the synthetic document that the definition
\* provider returns has its range mapped to Vue file coordinates with the
\* recorded anchor, and without an anchor the item is not returned.
C26_ResultsMapped ==
    \A r \in returned :
       r.of.uri = TsUri =>
          \E a \in uriToMapping :
             /\ a.uri = TsUri
             /\ r.uri = a.sourceUri
             /\ r.range.start = Anchored(a, r.of.range.start)
             /\ r.range.end = Anchored(a, r.of.range.end)

\* C30: the manager holds an anchor for the synthetic document exactly while
\* that document is open at the backend, so none remains after a provider
\* call has returned.
C30_AnchorWhileOpen ==
    (\E a \in uriToMapping : a.uri = TsUri) <=> TsUri \in opened

\* the indices at which an opening script-setup tag with the ts marker begins
TagsOf(content) ==
    {i \in 0..(Len(content) - 1) : OpeningTagEnd(content, i) # -1}

\* the indices at or after `from` at which a `</script>` begins
ClosesOf(content, from) ==
    {e \in from..(Len(content) - 9) :
        SubSeq(content, e + 1, e + 9) = ScriptClose}

SettledByMessage(id) ==
    /\ id \in DOMAIN calls
    /\ calls[id].settles = 0
    /\ calls'[id].settles = 1
    /\ calls'[id].by \in {"result", "error"}

\* C32: a pending call is settled by an inbound message only when that
\* message is the response to it; a message of the backend that carries a
\* method field never settles a call, whatever its id.
C32_OnlyResponsesSettle ==
    [][\A id \in Ids :
          SettledByMessage(id) => (id \notin answered /\ id \in answered')]_vars

\* call id has passed the guard of sendRequest and is not settled
Unsettled(id) == id \in DOMAIN calls /\ calls[id].settles = 0

\* call id is settled
Settled(id) == id \in DOMAIN calls /\ calls[id].settles > 0

\* C33: every sendRequest call eventually settles, whatever the backend does
\* afterwards: a call that passed the guard settles at the latest when its
\* 30 s timer fires (a call made with no process running is rejected in the
\* guard and registers nothing).
C33_EverySendRequestSettles ==
    \A id \in Ids : Unsettled(id) ~> Settled(id)

\* a call the backend never answered, whose process ended on its own, has been
\* settled by its timer
C33_Witness ==
    \E id \in DOMAIN calls :
       /\ calls[id].by = "timeout"
       /\ id \notin answered
       /\ procState[calls[id].proc] = "exited"

(* -------------------- further claims on the framing ------------------- *)
\* the bodies of messages in plain ASCII
AsciiBodies == {c \in MessageBodies : ByteLength(c) = Len(c)}

\* the buffer begins with a header block without a usable Content-Length
HeldAtFront ==
    \E block \in {NotANumberBlock, MissingBlock} :
       /\ Len(buffer) >= Len(block)
       /\ SubSeq(buffer, 1, Len(block)) = block

\* C34: a header block whose Content-Length is missing or not a number does
\* not block the decoder: once every byte of the well-formed frames written
\* after it has been delivered, their messages have been dispatched, in
\* order, and the buffer does not hold the bad header at its front.
C34_BadHeaderSkipped ==
    (/\ pipe = <<>>
     /\ written # <<>>
     /\ \A i \in 1..Len(written) : written[i] \in AsciiBodies)
    => /\ dispatched = MessagesIn(written)
       /\ ~HeldAtFront

\* the processes the instance spawned that are still alive
LiveProcesses == {p \in Procs : procState[p] = "alive"}

\* C35: the instance refers to at most one live process and every spawned
\* process that is still alive is the one the handle refers to, so stop()
\* would kill it: no live process is left without a handle.
C35_OneLiveProcess ==
    /\ Cardinality(LiveProcesses) <= 1
    /\ \A p \in LiveProcesses : tsgoProcess = p

(* --------------- claims on the extension (ExtensionSpec) -------------- *)
\* provider invocation c sends didClose in this step
Closes(c) == provides'[c].didClose = provides[c].didClose + 1

\* provider invocation d has sent a request on document uri and waits for
\* the answer
PendingOn(d, uri) ==
    /\ provides[d].pc \in {"definition", "hover"}
    /\ provides[d].tsUri = uri

\* C31: the synthetic document of a provider invocation is its own: the
\* didClose one invocation sends never closes the document on which another
\* invocation's request is still pending.
C31_CallScopedDocument ==
    [][\A c \in Provides, d \in Provides :
          (c # d /\ Closes(c)) => ~PendingOn(d, provides[c].tsUri)]_vars

\* C36: an invocation that sent didOpen sends exactly one didClose before
\* it returns, whatever the outcome of its requests; an invocation that
\* returns early (no client, position outside the region, file not
\* parsed) sends neither.
C36_DidCloseMatchesDidOpen ==
    \A c \in Provides :
       /\ provides[c].didOpen \in {0, 1}
       /\ provides[c].pc \in {"idle", "parse"} =>
             provides[c].didOpen = 0 /\ provides[c].didClose = 0
       /\ provides[c].pc \in {"definition", "hover"} =>
             provides[c].didOpen = 1 /\ provides[c].didClose = 0
       /\ provides[c].pc = "returned" =>
             /\ provides[c].didClose = provides[c].didOpen
             /\ provides[c].outcome = "unasked" => provides[c].didOpen = 0
             /\ provides[c].outcome # "unasked" => provides[c].didOpen = 1

\* both invocations have returned: a hover whose request failed, closed
\* once, and a definition call that returned early
C36_Witness ==
    \E c \in Provides, d \in Provides :
       /\ provides[c].pc = "returned" /\ provides[c].kind = "hover"
       /\ provides[c].outcome = "fail"
       /\ provides[c].didOpen = 1 /\ provides[c].didClose = 1
       /\ provides[d].pc = "returned" /\ provides[d].kind = "definition"
       /\ provides[d].outcome = "unasked" /\ provides[d].didOpen = 0

\* the LanguageClient states after stop() on a VueTsgoClient that holds cl
\* (0: none) with the states st
StopResult(cl, st) == IF cl = 0 THEN st ELSE [st EXCEPT ![cl] = "stopped"]

\* the outcomes of start() on a VueTsgoClient that holds cl with the states
\* st: the old LanguageClient stopped, a new one created and held, running
\* or failed to start
StartResults(cl, st) ==
    LET stopped == StopResult(cl, st)
        k == Cardinality({j \in Clients : stopped[j] # "none"}) + 1
    IN {[client |-> k, states |-> [stopped EXCEPT ![k] = state]] :
          state \in {"running", "failed"}}

\* C38: at most one LanguageClient is held and running: a LanguageClient
\* that is running or starting is the one held; a completed start() on a
\* started client has stopped the old LanguageClient and holds a new one;
\* a completed stop() leaves getClient() undefined and changes nothing when
\* nothing was held; a completed restart() has the outcome of stop()
\* followed by start().
C38_OneLanguageClient ==
    /\ \A k \in Clients :
          clientState[k] \in {"starting", "running"} => client = k
    /\ (op.pc = "idle" /\ op.name = "stop") =>
          /\ client = 0
          /\ clientState = StopResult(op.before, op.states)
    /\ (op.pc = "idle" /\ op.name = "start") =>
          [client |-> client, states |-> clientState]
             \in StartResults(op.before, op.states)
    /\ (op.pc = "idle" /\ op.name = "restart") =>
          [client |-> client, states |-> clientState]
             \in StartResults(0, StopResult(op.before, op.states))

\* start() has completed on a VueTsgoClient whose LanguageClient was
\* running: the old one is stopped and a new one is running
C38_Witness ==
    /\ op.pc = "idle" /\ op.name = "start"
    /\ op.before # 0 /\ op.states[op.before] = "running"
    /\ clientState[op.before] = "stopped"
    /\ client # 0 /\ clientState[client] = "running"

(* ------------ claims on VirtualDocumentManager (ManagerSpec) ---------- *)
\* the keys of the two maps
TextUris == {e.uri : e \in uriToText}
MappingUris == {m.uri : m \in uriToMapping}

\* the mapping as getMapping returns it, without the key
MappingValue(m) ==
    [sourceUri |-> m.sourceUri, scriptStartLine |-> m.scriptStartLine,
     scriptStartChar |-> m.scriptStartChar]

\* the entries of every URI other than uri are the same after the step
OthersKept(uri) ==
    /\ {e \in uriToText' : e.uri # uri} = {e \in uriToText : e.uri # uri}
    /\ {m \in uriToMapping' : m.uri # uri} =
          {m \in uriToMapping : m.uri # uri}

\* C37: the text map and the mapping map hold the same URIs; after
\* setVirtualDocument(u, t, m), getText(u) = t and getMapping(u) = m and no
\* other entry changed; after disposeVirtualDocument(u) both are undefined
\* and provideTextDocumentContent(u) is the empty string.
C37_MapsInStep ==
    /\ [](TextUris = MappingUris)
    /\ [][/\ \A u \in ManagerUris, t \in ManagerTexts, m \in ManagerMappings :
               setVirtualDocumentCall(u, t, m) =>
                  /\ getText(u)' = {t}
                  /\ {MappingValue(x) : x \in getMapping(u)'} = {m}
                  /\ OthersKept(u)
          /\ \A u \in ManagerUris :
               disposeVirtualDocument(u) =>
                  /\ getText(u)' = {}
                  /\ getMapping(u)' = {}
                  /\ provideTextDocumentContent(u)' = <<>>
                  /\ OthersKept(u)]_vars

\* one document was set and disposed of while another is still held with
\* its text and mapping
C37_Witness ==
    /\ Cardinality(TextUris) = 2
    /\ createVirtualUri(VueUri) \notin TextUris
    /\ createVirtualUri(VueUri) \notin MappingUris
    /\ \E u \in ManagerUris : getText(u) = {<<"x">>}

(* ------------------ claims on virtual URIs (UriSpec) ------------------ *)
\* the path ends in .vue
EndsInVue(path) == Len(path) >= 1 /\ path[Len(path)] = ".vue"

\* C39: for a URI v whose path ends in .vue, createVirtualUri(v) is a
\* virtual file for isVirtualFile and needsMapping and maps back to the
\* file URI with v's path; mapVirtualToVueFile returns a URI that is not
\* virtual unchanged, and applied twice it gives what it gives once.
C39_VirtualUriRoundTrip ==
    /\ EndsInVue(mappedUri.of.path) =>
          /\ mappedUri.virtual
          /\ mappedUri.needs
          /\ mapVirtualToVueFile(createVirtualUri(mappedUri.of)) =
                [scheme |-> "file", path |-> mappedUri.of.path]
    /\ ~isVirtualFile(mappedUri.of) => mappedUri.to = mappedUri.of
    /\ mappedUri.twice = mappedUri.to

\* the mapping was applied to a virtual URI whose path also ends in .vue
\* once its suffix is taken off, written in upper case
C39_Witness ==
    /\ mappedUri.of.scheme = "vue-tsgo"
    /\ mappedUri.of.path = <<".vue", ".VUE", ".Setup.TS">>
    /\ mappedUri.to = [scheme |-> "file", path |-> <<".vue", ".VUE">>]

==========================================================================
